---- MODULE Spec2Model ----
(***************************************************************************)
(* The gated signal-decision engine of ml_service/institutional_signal.py. *)
(*                                                                         *)
(* One evaluation of generate_institutional_signal_debug is a walk through *)
(* the gate blocks of the function body, in the order the code runs them:  *)
(* data, market_regime, sentiment, structure, alignment, entry.  Each      *)
(* block is one action; pc is the block the evaluation is about to run.    *)
(* The evaluation ends (pc = "done") with a decision payload and the       *)
(* diagnostics record debug["gates"], or with a raised exception.          *)
(*                                                                         *)
(* Numbers.  Prices are integers; a price multiplied by the 0.999 / 1.001  *)
(* stop buffer is kept exactly in thousandths (stop_loss, take_profit and  *)
(* entry_price of a payload are in thousandths of a price unit).  RSI and  *)
(* ADX readings are integers on their 0..100 scales, sentiment scores are  *)
(* hundredths in -100..100.  Python's None is the empty tuple <<>>.        *)
(***************************************************************************)
EXTENDS Integers, Sequences, FiniteSets, TLC

VARIABLES
    pc,        \* the gate block the evaluation runs next, or "done"
    rules,     \* the six parsed toggles (debug["rules"])
    call,      \* the other call parameters: use_sentiment, preset
    feed,      \* what the data provider returns: provider present, bars per series
    news_manager, \* what the news provider returns, once the sentiment block asked
    args,      \* the arguments of a component called on its own (component specifications)
    entry_out, \* what compute_entry_and_risk returned, with the checks it recorded
    gates,     \* debug["gates"]: the recorded state of every gate
    metrics,   \* debug["metrics"]: the intermediate readings later claims use
    regime,    \* the RegimeResult in force (after the RSI override, if any)
    sent,      \* the SentimentResult
    struct,    \* the StructureResult and the orchestrator's structure locals
    payload,   \* the decision payload returned, or the exception raised
    now,       \* the wall clock datetime.now() reads, in decay half-lives (12 ln 2 hours)
    evals,     \* the locals of each of several evaluations running side by side
    response   \* what a request handler of main.py answered, or None

vars == <<pc, rules, call, feed, news_manager, args, entry_out, gates, metrics, regime, sent,
          struct, payload, now, evals, response>>

None == <<>>
Some(v) == <<v>>

(***************************************************************************)
(* Gate names in pipeline order, and the values a gate record can hold.    *)
(***************************************************************************)
GateOrder == <<"data", "market_regime", "sentiment", "structure", "alignment", "entry">>
GateNames == {GateOrder[i] : i \in 1..Len(GateOrder)}
GateIndex(g) == CHOOSE i \in 1..Len(GateOrder) : GateOrder[i] = g

RuleKeys == {"enable_regime", "enable_structure", "enable_alignment",
             "enable_vwap", "enable_volume", "enable_stop_cap"}

(* debug["gates"] before any gate has written to it. *)
NoGates == [g \in GateNames \cup {"structure_state"} |-> "ABSENT"]

(* rsi_only_mode: every one of the six toggles is off. *)
rsi_only_mode == \A k \in RuleKeys : ~rules[k]

(***************************************************************************)
(* _no_trade_payload: the fixed NO_TRADE fields; `extra` may replace the   *)
(* explain list (the entry gate passes its own list of sentences).         *)
(***************************************************************************)
NoPayload ==
    [signal |-> "PENDING", reason |-> "", failed_gate |-> "", explain |-> <<>>,
     confidence_score |-> 0, risk_level |-> "", entry_price |-> None,
     stop_loss |-> None, take_profit |-> None, risk_reward |-> None,
     warnings |-> <<>>, invalidate_if |-> <<>>, entry_reason |-> <<>>]

no_trade_payload(failed_gate, explain) ==
    [NoPayload EXCEPT !.signal = "NO_TRADE",
                      !.reason = "insufficient confluence",
                      !.failed_gate = failed_gate,
                      !.explain = explain,
                      !.confidence_score = 0]

(* An exception leaving the evaluation: no payload is returned. *)
Raised(exc) == [NoPayload EXCEPT !.signal = "RAISED", !.reason = exc]

(***************************************************************************)
(* The candle feed.  A series is None, empty, or a number of bars.         *)
(***************************************************************************)
EmaLength == 200
MinStructureBars == 60
HtfLimit == 260
ExecLimit == 300
RollingLength == 14
VolumeSmaLength == 20

(* The feeds an evaluation is run on: the provider is absent; or one of the  *)
(* three series is missing, empty or too short while the others are full;    *)
(* or all are full.                                                          *)
FullFeed == [provider |-> TRUE, df_1h |-> Some(HtfLimit), df_4h |-> Some(HtfLimit),
             df_exec |-> Some(ExecLimit)]
Feeds ==
    {[FullFeed EXCEPT !.provider = FALSE]}
    \cup {[FullFeed EXCEPT !.df_1h = b] : b \in {None, Some(0), Some(5), Some(HtfLimit)}}
    \cup {[FullFeed EXCEPT !.df_4h = b] : b \in {None, Some(0), Some(5)}}
    \cup {[FullFeed EXCEPT !.df_exec = b] : b \in {None, Some(0), Some(1), Some(15)}}

IsMissing(s) == s = None
IsEmpty(s) == s # None /\ s[1] = 0
Bars(s) == s[1]

(* The data-availability checks of the orchestrator, in the code's order. *)
DataFailure_NoEmptyCheck(f) ==
    IF ~f.provider THEN "Market data provider unavailable."
    ELSE IF IsMissing(f.df_1h) \/ IsMissing(f.df_4h) \/ IsMissing(f.df_exec)
        THEN "Failed to fetch candles for one or more timeframes."
    ELSE ""

DataFailure(f) ==
    IF ~f.provider THEN "Market data provider unavailable."
    ELSE IF IsMissing(f.df_1h) \/ IsMissing(f.df_4h) \/ IsMissing(f.df_exec)
        THEN "Failed to fetch candles for one or more timeframes."
    ELSE IF IsEmpty(f.df_1h) \/ IsEmpty(f.df_4h) \/ IsEmpty(f.df_exec)
        THEN "Received empty candle data."
    ELSE ""

(***************************************************************************)
(* compute_regime.  Its readings are the last values of the 200-EMA, the   *)
(* 14-period ADX and the close of the 1h and the 4h series.                *)
(***************************************************************************)
AdxThreshold == 20

compute_regime_anyrange(r) ==
    [market_regime |-> "TREND",
     bias |-> IF r.price_4h > r.ema200_4h /\ r.price_1h > r.ema200_1h THEN "LONG"
              ELSE IF r.price_4h < r.ema200_4h /\ r.price_1h < r.ema200_1h THEN "SHORT"
              ELSE "NEUTRAL",
     adx_1h |-> r.adx_1h, adx_4h |-> r.adx_4h]

compute_regime(r) ==
    IF r.adx_4h < AdxThreshold
    THEN [market_regime |-> "RANGE", bias |-> "NEUTRAL",
          adx_1h |-> r.adx_1h, adx_4h |-> r.adx_4h]
    ELSE [market_regime |-> "TREND",
          bias |-> IF r.price_4h > r.ema200_4h /\ r.price_1h > r.ema200_1h THEN "LONG"
                   ELSE IF r.price_4h < r.ema200_4h /\ r.price_1h < r.ema200_1h THEN "SHORT"
                   ELSE "NEUTRAL",
          adx_1h |-> r.adx_1h, adx_4h |-> r.adx_4h]

(* _adx: the double 14-bar rolling mean is 0.0 (fillna) on fewer than 14 bars. *)
AdxOf(bars, reading) == IF bars < RollingLength THEN 0 ELSE reading

(* _rsi: the 14-bar rolling means are undefined on fewer than 14 bars, and  *)
(* the undefined reading is filled with 50.0.                               *)
RsiOf(bars, reading) == IF bars < RollingLength THEN 50 ELSE reading

(* The higher-timeframe readings the pipeline is run on. *)
HtfReadings(f) ==
    {[adx_1h |-> AdxOf(Bars(f.df_1h), 24), adx_4h |-> AdxOf(Bars(f.df_4h), a4),
      ema200_1h |-> 100, ema200_4h |-> 100, price_1h |-> p1, price_4h |-> p4] :
        a4 \in {12, 30}, p1 \in {99, 101}, p4 \in {99, 101}}

(* The execution-timeframe RSI readings the pipeline is run on. *)
ExecRsiReadings(f) == {RsiOf(Bars(f.df_exec), x) : x \in {25, 45, 65}}

(***************************************************************************)
(* compute_sentiment_with_momentum, as the orchestrator calls it: the      *)
(* neutral result when there is no news provider or no item, else the      *)
(* aggregate of the items.                                                 *)
(***************************************************************************)
NeutralSentiment == [sentiment_score |-> 0, rising |-> FALSE, falling |-> FALSE]

(* The aggregates a non-empty news list is scored to in the pipeline runs. *)
NewsAggregates ==
    {[sentiment_score |-> sc, rising |-> m = "rising", falling |-> m = "falling"] :
        sc \in {-60, -59, 0, 59, 60}, m \in {"flat", "rising", "falling"}}

(* news: no news manager, an empty item list, or the aggregate of the items fetched. *)
NewsFeeds ==
    {[kind |-> k, aggregate |-> NeutralSentiment] : k \in {"NO_MANAGER", "EMPTY"}}
    \cup {[kind |-> "ITEMS", aggregate |-> a] : a \in NewsAggregates}

compute_sentiment_with_momentum(news) ==
    IF news.kind = "NO_MANAGER" \/ news.kind = "EMPTY" THEN NeutralSentiment
    ELSE news.aggregate

SentimentThreshold == 60

(* The sentiment gate's rule: the branch is chosen by bias = LONG or not. *)
SentimentRejects_ScoreOnly(bias, s) ==
    IF bias = "LONG"
    THEN ~(s.sentiment_score >= SentimentThreshold)
    ELSE ~(s.sentiment_score <= -SentimentThreshold)

SentimentRejects(bias, s) ==
    IF bias = "LONG"
    THEN ~(s.sentiment_score >= SentimentThreshold /\ s.rising)
    ELSE ~(s.sentiment_score <= -SentimentThreshold /\ s.falling)

(***************************************************************************)
(* compute_structure_sweep_bos, by its results.  Fewer than 60 bars, or    *)
(* fewer than two swing highs or lows, give UNCLEAR with no sweep and no   *)
(* BOS.  Otherwise the structure is one of the three states; the scan      *)
(* either finds no sweep (then bos stays false and every level None) or    *)
(* ends on a sweep of the last swing low (LOW) or high (HIGH), with BOS    *)
(* confirmed or not.                                                       *)
(***************************************************************************)
(* The price levels of the execution series the pipeline is run on: the    *)
(* last swing low and high, the 20-bar low and high, and the last close.  *)
Level == [swing_low |-> 990, swing_high |-> 1010, recent_low |-> 980,
          recent_high |-> 1020, close |-> 1000]

NoSweep(st) ==
    [structure |-> st, sweep |-> FALSE, bos |-> FALSE, sweep_level |-> None,
     sweep_side |-> "NONE"]

StructureResults(bars) ==
    IF bars < MinStructureBars THEN {NoSweep("UNCLEAR")}
    ELSE {NoSweep(st) : st \in {"BULLISH", "BEARISH", "UNCLEAR"}}
         \cup {[structure |-> st, sweep |-> TRUE, bos |-> b,
                sweep_level |-> Some(IF side = "LOW" THEN Level.swing_low ELSE Level.swing_high),
                sweep_side |-> side] :
                 st \in {"BULLISH", "BEARISH", "UNCLEAR"}, b \in BOOLEAN,
                 side \in {"LOW", "HIGH"}}

(* What the last bar does to the range of the ten bars before it: close and  *)
(* wick above the range high (UP), below the range low (DOWN), or neither.   *)
(* The orchestrator looks only when the series has more than 12 bars.        *)
PreRangeWindow == 10
LastBarBreaks(bars) == IF bars > PreRangeWindow + 2 THEN {"NONE", "UP", "DOWN"} ELSE {"NONE"}

(* Whether _find_swings returns a swing on the side the stop needs.  A sweep *)
(* or a clear structure was computed from two swings a side; a pivot needs  *)
(* 3 bars on each side, so there is none under 7 bars.                      *)
SwingSides == 3
SwingsFound(bars, st) ==
    IF st.structure # "UNCLEAR" \/ st.sweep THEN {TRUE}
    ELSE IF bars < 2 * SwingSides + 1 THEN {FALSE}
    ELSE BOOLEAN

(* The orchestrator's structure locals (fallback BOS, has_structure, stop_ref). *)
fallback_bos(st, bias, lastBreak) ==
    /\ ~st.bos
    /\ \/ bias = "LONG" /\ lastBreak = "UP"
       \/ bias = "SHORT" /\ lastBreak = "DOWN"

has_structure_SweepOnly(st, fb) == st.bos /\ st.sweep

has_structure(st, fb) == (st.bos /\ st.sweep) \/ fb \/ st.bos

fallback_stop_ref(st, bias, swings) ==
    IF st.sweep_level # None THEN None
    ELSE IF bias = "LONG" /\ swings THEN Some(Level.swing_low)
    ELSE IF bias = "SHORT" /\ swings THEN Some(Level.swing_high)
    ELSE None

stop_ref(st, bias, swings) ==
    IF st.sweep_level # None THEN st.sweep_level[1]
    ELSE IF fallback_stop_ref(st, bias, swings) # None
        THEN fallback_stop_ref(st, bias, swings)[1]
    ELSE IF bias = "LONG" THEN Level.recent_low ELSE Level.recent_high

(* The sweep-direction check, made only with the structure gate enabled. *)
SweepMismatch_LongOnly(st, bias) ==
    /\ st.sweep
    /\ bias = "LONG" /\ st.sweep_side # "LOW"

SweepMismatch(st, bias) ==
    /\ st.sweep
    /\ \/ bias = "LONG" /\ st.sweep_side # "LOW"
       \/ bias = "SHORT" /\ st.sweep_side # "HIGH"

(* The alignment check between bias and a clear structure. *)
AlignmentMismatch(st, bias) ==
    /\ st.structure # "UNCLEAR"
    /\ \/ bias = "LONG" /\ st.structure # "BULLISH"
       \/ bias = "SHORT" /\ st.structure # "BEARISH"

(***************************************************************************)
(* compute_entry_and_risk.                                                 *)
(*   x: the readings of the execution series: bars, close, open, last_rsi, *)
(*      prev_rsi, vwap, last_vol, avg_vol (0 when the 20-bar mean is NaN), *)
(*      recent_low, recent_high.                                           *)
(* Thresholds are integers: RSI points, VWAP tolerance and stop cap in     *)
(* thousandths, volume multiple in hundredths.                             *)
(***************************************************************************)
(* (preset or "balanced").strip().lower() on the preset names drawn. *)
StripLower(preset) ==
    IF preset = "" THEN "balanced"
    ELSE IF preset = " STRICT " THEN "strict"
    ELSE preset

PresetNorm(preset) ==
    IF StripLower(preset) \in {"strict", "balanced", "aggressive"} THEN StripLower(preset)
    ELSE "balanced"

Thresholds_NoMomentum(preset_norm) ==
    IF preset_norm = "strict" THEN
        [long_rsi_min |-> 40, long_rsi_max |-> 50, short_rsi_min |-> 50, short_rsi_max |-> 60,
         vwap_eps |-> 0, vol_mult_req |-> 120, max_stop_pct |-> 10,
         require_rsi_momentum |-> TRUE, require_volume |-> TRUE]
    ELSE IF preset_norm = "aggressive" THEN
        [long_rsi_min |-> 30, long_rsi_max |-> 60, short_rsi_min |-> 40, short_rsi_max |-> 70,
         vwap_eps |-> 2, vol_mult_req |-> 100, max_stop_pct |-> 30,
         require_rsi_momentum |-> FALSE, require_volume |-> FALSE]
    ELSE
        [long_rsi_min |-> 35, long_rsi_max |-> 55, short_rsi_min |-> 45, short_rsi_max |-> 65,
         vwap_eps |-> 1, vol_mult_req |-> 105, max_stop_pct |-> 20,
         require_rsi_momentum |-> FALSE, require_volume |-> TRUE]

Thresholds(preset_norm) ==
    IF preset_norm = "strict" THEN
        [long_rsi_min |-> 40, long_rsi_max |-> 50, short_rsi_min |-> 50, short_rsi_max |-> 60,
         vwap_eps |-> 0, vol_mult_req |-> 120, max_stop_pct |-> 10,
         require_rsi_momentum |-> TRUE, require_volume |-> TRUE]
    ELSE IF preset_norm = "aggressive" THEN
        [long_rsi_min |-> 30, long_rsi_max |-> 60, short_rsi_min |-> 40, short_rsi_max |-> 70,
         vwap_eps |-> 2, vol_mult_req |-> 100, max_stop_pct |-> 30,
         require_rsi_momentum |-> FALSE, require_volume |-> FALSE]
    ELSE
        [long_rsi_min |-> 35, long_rsi_max |-> 55, short_rsi_min |-> 45, short_rsi_max |-> 65,
         vwap_eps |-> 1, vol_mult_req |-> 105, max_stop_pct |-> 20,
         require_rsi_momentum |-> TRUE, require_volume |-> TRUE]

(* The sub-checks recorded in debug_out["checks"] before the stop is derived. *)
EntryChecks(x, side, preset, r) ==
    LET t == Thresholds(PresetNorm(preset))
        rsi_ok == IF side = "LONG"
                  THEN t.long_rsi_min <= x.last_rsi /\ x.last_rsi <= t.long_rsi_max
                  ELSE t.short_rsi_min <= x.last_rsi /\ x.last_rsi <= t.short_rsi_max
        rsi_momentum_ok == IF ~t.require_rsi_momentum THEN TRUE
                           ELSE IF side = "LONG" THEN x.last_rsi > x.prev_rsi
                           ELSE x.last_rsi < x.prev_rsi
        vwap_side_ok == IF side = "LONG"
                        THEN x.close * 1000 >= x.vwap * (1000 - t.vwap_eps)
                        ELSE x.close * 1000 <= x.vwap * (1000 + t.vwap_eps)
        candle_ok == IF side = "LONG" THEN x.close > x.open ELSE x.close < x.open
        avg_vol_ok == x.avg_vol > 0
        volume_ok == IF avg_vol_ok THEN x.last_vol * 100 >= x.avg_vol * t.vol_mult_req
                     ELSE FALSE
    IN  [preset |-> PresetNorm(preset),
         rsi_ok |-> rsi_ok,
         rsi_momentum_ok |-> rsi_momentum_ok,
         vwap_ok |-> IF r.enable_vwap THEN vwap_side_ok ELSE TRUE,
         candle_ok |-> candle_ok,
         avg_vol_ok |-> avg_vol_ok,
         volume_ok |-> volume_ok,
         effective_volume_ok |-> IF t.require_volume /\ r.enable_volume THEN volume_ok
                                 ELSE TRUE,
         enable_vwap |-> r.enable_vwap,
         enable_volume |-> r.enable_volume,
         enable_stop_cap |-> r.enable_stop_cap,
         stop_width_ok |-> "ABSENT"]

EntryStop_NoBuffer(side, sweep_level, x) ==
    LET ref == IF sweep_level # None THEN sweep_level[1]
               ELSE IF side = "LONG" THEN x.recent_low ELSE x.recent_high
    IN  ref * 1000

(* Stop, risk and target in thousandths of a price unit. *)
EntryStop(side, sweep_level, x) ==
    LET ref == IF sweep_level # None THEN sweep_level[1]
               ELSE IF side = "LONG" THEN x.recent_low ELSE x.recent_high
    IN  IF side = "LONG" THEN ref * 999 ELSE ref * 1001

EntryRisk(side, sweep_level, x) ==
    IF side = "LONG" THEN x.close * 1000 - EntryStop(side, sweep_level, x)
    ELSE EntryStop(side, sweep_level, x) - x.close * 1000

(* risk_pct > max_stop_pct, with risk_pct = 1.0 when the entry price is 0. *)
StopTooWide_AsPercent(risk, entry, max_stop_pct) ==
    IF entry > 0 THEN risk > 100 * max_stop_pct * entry
    ELSE IF entry < 0 THEN -risk > 100 * max_stop_pct * (-entry)
    ELSE 1000 > 100 * max_stop_pct

StopTooWide(risk, entry, max_stop_pct) ==
    IF entry > 0 THEN risk > max_stop_pct * entry
    ELSE IF entry < 0 THEN -risk > max_stop_pct * (-entry)
    ELSE 1000 > max_stop_pct

compute_entry_and_risk(x, side, sweep_level, preset, r) ==
    IF x.bars < 2 THEN
        (* df_exec.iloc[-2] on a one-bar series *)
        [kind |-> "RAISE", exc |-> "IndexError"]
    ELSE
    LET checks == EntryChecks(x, side, preset, r)
        t == Thresholds(PresetNorm(preset))
        stop == EntryStop(side, sweep_level, x)
        risk == EntryRisk(side, sweep_level, x)
        take_profit == IF side = "LONG" THEN x.close * 1000 + 2 * risk
                       ELSE x.close * 1000 - 2 * risk
        stop_width_ok == ~(r.enable_stop_cap /\ StopTooWide(risk, x.close, t.max_stop_pct))
        final == [checks EXCEPT !.stop_width_ok = IF stop_width_ok THEN "TRUE" ELSE "FALSE"]
    IN  IF risk <= 0
        THEN [kind |-> "NONE", checks |-> checks,
              last_volume |-> x.last_vol, avg_volume |-> x.avg_vol]
        ELSE IF ~(checks.rsi_ok /\ checks.rsi_momentum_ok /\ checks.vwap_ok
                  /\ checks.avg_vol_ok /\ checks.effective_volume_ok /\ stop_width_ok)
        THEN [kind |-> "NONE", checks |-> final,
              last_volume |-> x.last_vol, avg_volume |-> x.avg_vol]
        ELSE [kind |-> "PLAN", checks |-> final,
              last_volume |-> x.last_vol, avg_volume |-> x.avg_vol,
              entry_price |-> x.close * 1000, stop_loss |-> stop,
              take_profit |-> take_profit, risk_reward |-> "1:2+"]

(* The explanation the orchestrator builds from the recorded sub-checks. *)
Optional(cond, line) == IF cond THEN <<line>> ELSE <<>>

entry_explain_lines_NoCatchAll(checks) ==
    Optional(~checks.rsi_ok, "RSI condition not met")
    \o Optional(checks.enable_vwap /\ ~checks.vwap_ok, "VWAP condition not met")
    \o Optional(checks.enable_stop_cap /\ checks.stop_width_ok = "FALSE",
                "Stop too wide vs entry")

entry_explain_lines(checks) ==
    LET failed ==
          Optional(~checks.rsi_ok, "RSI condition not met")
          \o Optional(checks.enable_vwap /\ ~checks.vwap_ok, "VWAP condition not met")
          \o Optional(checks.enable_volume /\ ~checks.effective_volume_ok /\ ~checks.avg_vol_ok,
                      "Not enough volume history to evaluate")
          \o Optional(checks.enable_volume /\ ~checks.effective_volume_ok /\ ~checks.volume_ok,
                      "Volume not expanded enough")
          \o Optional(checks.enable_stop_cap /\ checks.stop_width_ok = "FALSE",
                      "Stop too wide vs entry")
    IN  IF failed # <<>> THEN failed
        ELSE <<"Entry trigger and/or risk rules rejected the setup (e.g. volume, VWAP/RSI pullback, or stop too wide).">>

(***************************************************************************)
(* The response of an accepted setup: risk label and confidence score.     *)
(***************************************************************************)
Min(a, b) == IF a < b THEN a ELSE b
Max(a, b) == IF a > b THEN a ELSE b
Abs(a) == IF a < 0 THEN -a ELSE a

(* Python's round() of n/d, n >= 0, d > 0: to nearest, ties to even. *)
RoundHalfEven(n, d) ==
    LET q == n \div d
        r == n % d
    IN  IF 2 * r < d THEN q
        ELSE IF 2 * r > d THEN q + 1
        ELSE IF q % 2 = 0 THEN q ELSE q + 1

DisabledRules(r) == {k \in RuleKeys : ~r[k]}

risk_level_HighAtTwo(r) ==
    IF Cardinality(DisabledRules(r)) >= 2 THEN "HIGH"
    ELSE IF Cardinality(DisabledRules(r)) >= 1 THEN "MEDIUM"
    ELSE "LOW"

risk_level(r) ==
    IF Cardinality(DisabledRules(r)) >= 3 THEN "HIGH"
    ELSE IF Cardinality(DisabledRules(r)) >= 1 THEN "MEDIUM"
    ELSE "LOW"

(* The three contributions in half points: (a, s) and the volume bonus as  *)
(* the fraction vnum / vden of a point.                                    *)
AdxStrength2(rg) == Min(60, Max(0, (Min(rg.adx_1h, rg.adx_4h) - AdxThreshold) * 3))
SentStrength2_Always(use_sentiment, s) == Min(100, Abs(s.sentiment_score))

SentStrength2(use_sentiment, s) ==
    IF use_sentiment THEN Min(100, Abs(s.sentiment_score)) ELSE 0

confidence_score(rg, use_sentiment, s, last_vol, vol_sma, hasStructure) ==
    LET den == IF vol_sma > 0 THEN vol_sma ELSE 1
        (* vol_bonus * den: (vol_mult - 1) * 20 clipped to 0..20 *)
        vnum == IF vol_sma > 0 THEN Min(20 * den, Max(0, 20 * (last_vol - vol_sma))) ELSE 0
        total2 == den * (AdxStrength2(rg) + SentStrength2(use_sentiment, s)) + 2 * vnum
        score == RoundHalfEven(Min(200 * den, total2), 2 * den)
    IN  IF hasStructure THEN score ELSE Max(5, RoundHalfEven(score * 55, 100))

(* ENGINE_VERSION and applied_rules are read by the forced RSI-only return  *)
(* and are bound nowhere in the module: reading them raises NameError.      *)
EngineVersionBound == FALSE

forced_trade_payload(bias, x, st) ==
    LET entry == x.close * 1000
        stop == IF bias = "LONG" THEN x.recent_low * 999 ELSE x.recent_high * 1001
        (* max(1e-9, .) never binds: the 20-bar low is at most the close, the high at least *)
        risk == IF bias = "LONG" THEN entry - stop ELSE stop - entry
    IN  [NoPayload EXCEPT
            !.signal = bias,
            !.confidence_score = 5,
            !.risk_level = "HIGH",
            !.warnings = st.warnings \o <<"DEMO_FORCE_TRADE">>,
            !.entry_reason = <<"rsi_only_demo">>,
            !.entry_price = Some(entry),
            !.stop_loss = Some(stop),
            !.take_profit = Some(IF bias = "LONG" THEN entry + 2 * risk ELSE entry - 2 * risk),
            !.risk_reward = Some("1:2+"),
            !.invalidate_if = <<"do_not_use_in_real_trading">>]

trade_payload(bias, plan, confidence, st) ==
    [NoPayload EXCEPT
        !.signal = bias,
        !.confidence_score = confidence,
        !.risk_level = risk_level(rules),
        !.warnings = st.warnings,
        !.entry_reason = <<"market_regime_confirmed", "sentiment_alignment", "liquidity_sweep",
                           "bos_confirmed", "volume_confirmation">>,
        !.entry_price = Some(plan.entry_price),
        !.stop_loss = Some(plan.stop_loss),
        !.take_profit = Some(plan.take_profit),
        !.risk_reward = Some(plan.risk_reward),
        !.invalidate_if = <<"sentiment_flip", "structure_break", "volume_divergence">>]

(***************************************************************************)
(* The readings of the execution series the entry step is run on.  The     *)
(* last RSI is the one the regime step already read, when it read it.      *)
(***************************************************************************)
Presets == {"strict", "balanced", "aggressive"}

(* <<last volume, 20-bar mean>>; the mean is NaN, read as 0.0, under 20 bars. *)
VolumeReadings(bars) ==
    IF bars < VolumeSmaLength THEN {<<130, 0>>}
    ELSE {<<130, 100>>, <<100, 100>>}

(* The last bar is an up bar (opens below its close, RSI rising from the     *)
(* bar before, close above VWAP) or a down bar (the three the other way).    *)
LastBars ==
    {[open |-> 995, prev_rsi_delta |-> -5, vwap |-> 990],
     [open |-> 1005, prev_rsi_delta |-> 5, vwap |-> 1010]}

ExecReadings(f, exec_rsi) ==
    {[bars |-> Bars(f.df_exec), close |-> Level.close, open |-> b.open,
      last_rsi |-> rsi, prev_rsi |-> RsiOf(Bars(f.df_exec) - 1, rsi + b.prev_rsi_delta),
      vwap |-> b.vwap, last_vol |-> v[1], avg_vol |-> v[2],
      recent_low |-> Level.recent_low, recent_high |-> Level.recent_high] :
        b \in LastBars, v \in VolumeReadings(Bars(f.df_exec)),
        rsi \in IF exec_rsi # None THEN {exec_rsi[1]} ELSE ExecRsiReadings(f)}

(***************************************************************************)
(* State before the evaluation starts.                                     *)
(***************************************************************************)
NoMetrics == [regime |-> "", bias |-> "", exec_rsi |-> None]
NoRegime == [market_regime |-> "", bias |-> "", adx_1h |-> 0, adx_4h |-> 0]
NoStruct ==
    [structure |-> "", sweep |-> FALSE, bos |-> FALSE, sweep_level |-> None,
     sweep_side |-> "NONE", fallback_bos |-> FALSE, has_structure |-> FALSE,
     stop_ref |-> None, warnings |-> <<>>]

Init ==
    /\ pc = "data"
    /\ rules \in [RuleKeys -> BOOLEAN]
    /\ call \in [use_sentiment : BOOLEAN]
    /\ feed \in Feeds
    /\ news_manager = None
    /\ entry_out = None
    /\ response = None
    /\ now = 0
    /\ evals = <<>>
    /\ args = None
    /\ gates = NoGates
    /\ metrics = NoMetrics
    /\ regime = NoRegime
    /\ sent = NeutralSentiment
    /\ struct = NoStruct
    /\ payload = NoPayload

(* A gate rejects: its record is False and the evaluation returns NO_TRADE. *)
Reject(gate, explain) ==
    /\ gates' = [gates EXCEPT ![gate] = "FALSE"]
    /\ payload' = no_trade_payload(gate, explain)
    /\ pc' = "done"

(***************************************************************************)
(* Data availability.                                                      *)
(***************************************************************************)
DataGate ==
    /\ pc = "data"
    /\ IF DataFailure(feed) # ""
       THEN Reject("data", <<DataFailure(feed)>>)
       ELSE /\ gates' = [gates EXCEPT !.data = "TRUE"]
            /\ pc' = "market_regime"
            /\ UNCHANGED payload
    /\ UNCHANGED <<response, now, evals, rules, call, feed, news_manager, args, entry_out, metrics, regime, sent, struct>>

(***************************************************************************)
(* Regime: compute_regime on the 1h and 4h series, then the gate, or with  *)
(* the gate disabled the bias taken from the execution RSI.                *)
(***************************************************************************)
RsiBias_Above(rsi) == IF rsi > 50 THEN "SHORT" ELSE "LONG"

RsiBias(rsi) == IF rsi >= 50 THEN "SHORT" ELSE "LONG"

(* The RegimeResult the later gates use: the classifier's with the gate    *)
(* enabled, else TREND with the bias of the execution RSI.                 *)
regime_always_rsi(res, enable_regime, rsi) ==
    [res EXCEPT !.market_regime = "TREND", !.bias = RsiBias(rsi)]

regime_in_force(res, enable_regime, rsi) ==
    IF enable_regime THEN res
    ELSE [res EXCEPT !.market_regime = "TREND", !.bias = RsiBias(rsi)]

RegimeGate ==
    /\ pc = "market_regime"
    /\ \E r \in HtfReadings(feed), rsi \in ExecRsiReadings(feed) :
        LET res == compute_regime(r) IN
        IF rules.enable_regime THEN
            /\ metrics' = [metrics EXCEPT !.regime = res.market_regime, !.bias = res.bias]
            /\ regime' = regime_in_force(res, TRUE, rsi)
            /\ IF res.market_regime = "RANGE"
               THEN Reject("market_regime",
                      <<"Higher timeframes are range-bound (ADX too low); waiting for trending conditions.">>)
               ELSE IF res.bias = "NEUTRAL"
               THEN Reject("market_regime",
                      <<"Higher timeframes do not agree on a clear directional bias.">>)
               ELSE /\ gates' = [gates EXCEPT !.market_regime = "TRUE"]
                    /\ pc' = "sentiment"
                    /\ UNCHANGED payload
        ELSE
            /\ metrics' = [regime |-> res.market_regime, bias |-> res.bias,
                           exec_rsi |-> Some(rsi)]
            /\ regime' = regime_in_force(res, FALSE, rsi)
            /\ gates' = [gates EXCEPT !.market_regime = "SKIPPED"]
            /\ pc' = "sentiment"
            /\ UNCHANGED payload
    /\ UNCHANGED <<response, now, evals, rules, call, feed, news_manager, args, entry_out, sent, struct>>

(***************************************************************************)
(* Sentiment.                                                              *)
(***************************************************************************)
SentimentGate ==
    /\ pc = "sentiment"
    /\ \E news \in (IF call.use_sentiment THEN NewsFeeds
                    ELSE {[kind |-> "NO_MANAGER", aggregate |-> NeutralSentiment]}) :
        LET s == IF call.use_sentiment /\ news.kind # "NO_MANAGER"
                 THEN compute_sentiment_with_momentum(news)
                 ELSE NeutralSentiment
        IN  /\ news_manager' = Some(news)
            /\ sent' = s
            /\ IF call.use_sentiment
               THEN IF SentimentRejects(regime.bias, s)
                    THEN Reject("sentiment",
                           <<IF regime.bias = "LONG"
                             THEN "Sentiment gate rejected the setup for LONG bias."
                             ELSE "Sentiment gate rejected the setup for SHORT bias.">>)
                    ELSE /\ gates' = [gates EXCEPT !.sentiment = "TRUE"]
                         /\ pc' = "structure"
                         /\ UNCHANGED payload
               ELSE /\ gates' = [gates EXCEPT !.sentiment = "SKIPPED"]
                    /\ pc' = "structure"
                    /\ UNCHANGED payload
    /\ UNCHANGED <<response, now, evals, rules, call, feed, args, entry_out, metrics, regime, struct>>

(***************************************************************************)
(* Structure: compute_structure_sweep_bos, the BOS-only fallback, the stop *)
(* reference, the structure record and the sweep-direction check.          *)
(***************************************************************************)
StructureWarnings(hs, st) ==
    Optional(~hs, "Structure confirmation missing (no sweep/BOS). Using fallback stop reference.")
    \o Optional(st.structure = "UNCLEAR", "Structure state is UNCLEAR.")

StructureGate ==
    /\ pc = "structure"
    /\ \E st \in StructureResults(Bars(feed.df_exec)),
          lastBreak \in LastBarBreaks(Bars(feed.df_exec)) :
        \E swings \in SwingsFound(Bars(feed.df_exec), st) :
        LET fb == fallback_bos(st, regime.bias, lastBreak)
            hs == has_structure(st, fb)
            locals == [structure |-> st.structure, sweep |-> st.sweep, bos |-> st.bos,
                       sweep_level |-> st.sweep_level, sweep_side |-> st.sweep_side,
                       fallback_bos |-> fb, has_structure |-> hs,
                       stop_ref |-> Some(stop_ref(st, regime.bias, swings)),
                       warnings |-> Optional(~hs,
                           "Structure confirmation missing (no sweep/BOS). Using fallback stop reference.")]
        IN  IF rules.enable_structure /\ SweepMismatch(st, regime.bias)
            THEN /\ struct' = locals
                 /\ Reject("structure",
                      <<IF regime.bias = "LONG"
                        THEN "Sweep direction does not match LONG bias (expected LOW sweep)."
                        ELSE "Sweep direction does not match SHORT bias (expected HIGH sweep).">>)
            ELSE /\ struct' = [locals EXCEPT !.warnings = StructureWarnings(hs, st)]
                 /\ gates' = [gates EXCEPT !.structure = IF hs THEN "TRUE" ELSE "FALSE",
                                           !.structure_state = st.structure]
                 /\ pc' = "alignment"
                 /\ UNCHANGED payload
    /\ UNCHANGED <<response, now, evals, rules, call, feed, news_manager, args, entry_out, metrics, regime, sent>>

(***************************************************************************)
(* Directional alignment between the bias and the structure.               *)
(***************************************************************************)
AlignmentGate ==
    /\ pc = "alignment"
    /\ IF rules.enable_alignment
       THEN IF AlignmentMismatch(struct, regime.bias)
            THEN Reject("alignment",
                   <<IF regime.bias = "LONG"
                     THEN "Structure direction does not align with LONG bias."
                     ELSE "Structure direction does not align with SHORT bias.">>)
            ELSE /\ gates' = [gates EXCEPT !.alignment = "TRUE"]
                 /\ pc' = "entry"
                 /\ UNCHANGED payload
       ELSE /\ gates' = [gates EXCEPT !.alignment = "SKIPPED"]
            /\ pc' = "entry"
            /\ UNCHANGED payload
    /\ UNCHANGED <<response, now, evals, rules, call, feed, news_manager, args, entry_out, metrics, regime, sent, struct>>

(***************************************************************************)
(* Entry and risk, and the response.                                       *)
(***************************************************************************)
EntryGate ==
    /\ pc = "entry"
    /\ \E preset \in Presets, x \in ExecReadings(feed, metrics.exec_rsi) :
        LET res == compute_entry_and_risk(x, regime.bias, struct.stop_ref, preset,
                                          rules)
        IN  /\ entry_out' = Some(res)
            /\ IF res.kind = "RAISE"
               THEN /\ payload' = Raised(res.exc)
                    /\ UNCHANGED gates
               ELSE IF res.kind = "NONE"
               THEN /\ gates' = [gates EXCEPT !.entry = "FALSE"]
                    /\ payload' =
                         IF rsi_only_mode
                         THEN IF EngineVersionBound
                              THEN forced_trade_payload(regime.bias, x, struct)
                              ELSE Raised("NameError")
                         ELSE no_trade_payload("entry", entry_explain_lines(res.checks))
               ELSE /\ gates' = [gates EXCEPT !.entry = "TRUE"]
                    /\ payload' = trade_payload(regime.bias, res,
                                     confidence_score(regime, call.use_sentiment, sent,
                                                      x.last_vol, x.avg_vol,
                                                      struct.has_structure),
                                     struct)
    /\ pc' = "done"
    /\ UNCHANGED <<response, now, evals, rules, call, feed, news_manager, args, metrics, regime, sent, struct>>

Next ==
    \/ DataGate
    \/ RegimeGate
    \/ SentimentGate
    \/ StructureGate
    \/ AlignmentGate
    \/ EntryGate

Spec == Init /\ [][Next]_vars

(***************************************************************************)
(* compute_regime called on its own, over a grid of readings around the    *)
(* ADX threshold and around the two 200-EMAs.                              *)
(***************************************************************************)
PriceSpread == 1
EmaBase == 100

RegimeArgs ==
    [adx_1h : {0, AdxThreshold - 1, AdxThreshold, AdxThreshold + 1, 45},
     adx_4h : {0, AdxThreshold - 1, AdxThreshold, AdxThreshold + 1, 45},
     ema200_1h : {EmaBase}, ema200_4h : {EmaBase, EmaBase + 1},
     price_1h : (EmaBase - PriceSpread)..(EmaBase + PriceSpread),
     price_4h : (EmaBase - PriceSpread)..(EmaBase + PriceSpread + 1)]

InitRegime ==
    /\ pc = "compute_regime"
    /\ args \in RegimeArgs
    /\ rules = [k \in RuleKeys |-> TRUE]
    /\ call = [use_sentiment |-> FALSE]
    /\ feed = FullFeed
    /\ news_manager = None
    /\ entry_out = None
    /\ response = None
    /\ now = 0
    /\ evals = <<>>
    /\ gates = NoGates
    /\ metrics = NoMetrics
    /\ regime = NoRegime
    /\ sent = NeutralSentiment
    /\ struct = NoStruct
    /\ payload = NoPayload

ComputeRegime ==
    /\ pc = "compute_regime"
    /\ regime' = compute_regime(args)
    /\ pc' = "returned"
    /\ UNCHANGED <<response, now, evals, rules, call, feed, news_manager, args, entry_out, gates, metrics, sent, struct, payload>>

SpecRegime == InitRegime /\ [][ComputeRegime]_vars

(***************************************************************************)
(* compute_structure_sweep_bos on its own, bar by bar.  A series is a      *)
(* sequence of bars [low, high, close]; bar t of the code (0-based) is     *)
(* df[t + 1].                                                              *)
(***************************************************************************)
BarAt(df, t) == df[t + 1]

MaxOf(S) == CHOOSE x \in S : \A y \in S : y <= x
MinOf(S) == CHOOSE x \in S : \A y \in S : x <= y

(* _find_swings(df, 3, 3): the pivots, a tie with a neighbour included. *)
swing_highs(df) ==
    {i \in SwingSides..(Len(df) - SwingSides - 1) :
        BarAt(df, i).high =
            MaxOf({BarAt(df, j).high : j \in (i - SwingSides)..(i + SwingSides)})}

swing_lows(df) ==
    {i \in SwingSides..(Len(df) - SwingSides - 1) :
        BarAt(df, i).low =
            MinOf({BarAt(df, j).low : j \in (i - SwingSides)..(i + SwingSides)})}

(* idxs[-k:] as the ascending sequence of the k largest indices. *)
RECURSIVE LastIdxs(_, _)
LastIdxs(idxs, k) ==
    IF k = 0 \/ idxs = {} THEN <<>>
    ELSE Append(LastIdxs(idxs \ {MaxOf(idxs)}, k - 1), MaxOf(idxs))

(* tol = max(1e-8, abs(last_close) * 0.001); on integer prices a           *)
(* difference exceeds it exactly when 1000 times it exceeds |last_close|.  *)
ExceedsTol(diff, last_close) == diff * 1000 > Abs(last_close)

strictly_increasing_any(vals, last_close) ==
    \A i \in 2..Len(vals) : vals[i] - vals[i - 1] > 0

strictly_increasing(vals, last_close) ==
    \A i \in 2..Len(vals) : ExceedsTol(vals[i] - vals[i - 1], last_close)

strictly_decreasing(vals, last_close) ==
    \A i \in 2..Len(vals) : ExceedsTol(vals[i - 1] - vals[i], last_close)

(* The structure state from the last three (or two) swings of each side. *)
structure_state(df, sh, sl) ==
    LET hi == LastIdxs(sh, IF Cardinality(sh) >= 3 THEN 3 ELSE 2)
        lo == LastIdxs(sl, IF Cardinality(sl) >= 3 THEN 3 ELSE 2)
        last_highs == [k \in 1..Len(hi) |-> BarAt(df, hi[k]).high]
        last_lows == [k \in 1..Len(lo) |-> BarAt(df, lo[k]).low]
        last_close == BarAt(df, Len(df) - 1).close
    IN  IF strictly_increasing(last_highs, last_close)
           /\ strictly_increasing(last_lows, last_close) THEN "BULLISH"
        ELSE IF strictly_decreasing(last_highs, last_close)
           /\ strictly_decreasing(last_lows, last_close) THEN "BEARISH"
        ELSE "UNCLEAR"

bos_window == 5
scan_pre_range_window == 10
ScanLookback == 10

NoScan ==
    [sweep |-> FALSE, bos |-> FALSE, sweep_level |-> None, sweep_index |-> None,
     bos_level |-> None, sweep_side |-> "NONE"]

(* The sweep found on candle i, with its BOS confirmation in the next *)
(* bos_window candles.                                                *)
SweepAt_SliceShort(df, i, side, l2, h2) ==
    LET pre_start == Max(0, i - scan_pre_range_window)
        pre_high == IF i > pre_start
                    THEN MaxOf({BarAt(df, j).high : j \in pre_start..(i - 1)})
                    ELSE BarAt(df, i).high
        pre_low == IF i > pre_start
                   THEN MinOf({BarAt(df, j).low : j \in pre_start..(i - 1)})
                   ELSE BarAt(df, i).low
        end == Min(Len(df) - 1, i + bos_window)
    IN  [sweep |-> TRUE,
         sweep_level |-> Some(IF side = "LOW" THEN l2 ELSE h2),
         sweep_side |-> side,
         sweep_index |-> Some(i),
         bos_level |-> Some(IF side = "LOW" THEN pre_high ELSE pre_low),
         bos |-> IF side = "LOW"
                 THEN \E j \in (i + 1)..(end - 1) : BarAt(df, j).high > pre_high
                 ELSE \E j \in (i + 1)..(end - 1) : BarAt(df, j).low < pre_low]

SweepAt(df, i, side, l2, h2) ==
    LET pre_start == Max(0, i - scan_pre_range_window)
        pre_high == IF i > pre_start
                    THEN MaxOf({BarAt(df, j).high : j \in pre_start..(i - 1)})
                    ELSE BarAt(df, i).high
        pre_low == IF i > pre_start
                   THEN MinOf({BarAt(df, j).low : j \in pre_start..(i - 1)})
                   ELSE BarAt(df, i).low
        end == Min(Len(df) - 1, i + bos_window)
    IN  [sweep |-> TRUE,
         sweep_level |-> Some(IF side = "LOW" THEN l2 ELSE h2),
         sweep_side |-> side,
         sweep_index |-> Some(i),
         bos_level |-> Some(IF side = "LOW" THEN pre_high ELSE pre_low),
         bos |-> IF side = "LOW"
                 THEN \E j \in (i + 1)..end : BarAt(df, j).high > pre_high
                 ELSE \E j \in (i + 1)..end : BarAt(df, j).low < pre_low]

(* The scan loop: for i in range(start_idx, len(df) - 1), left at the first *)
(* sweep whose BOS is confirmed.                                            *)
RECURSIVE scan_latest(_, _, _, _, _)
scan_latest(df, i, found, l2, h2) ==
    IF i > Len(df) - 2 THEN found
    ELSE LET b == BarAt(df, i)
             side == IF b.low < l2 /\ b.close > l2 THEN "LOW"
                     ELSE IF b.high > h2 /\ b.close < h2 THEN "HIGH"
                     ELSE "NONE"
         IN  IF side = "NONE" THEN scan_latest(df, i + 1, found, l2, h2)
             ELSE scan_latest(df, i + 1, SweepAt(df, i, side, l2, h2), l2, h2)

RECURSIVE scan(_, _, _, _, _)
scan(df, i, found, l2, h2) ==
    IF i > Len(df) - 2 THEN found
    ELSE LET b == BarAt(df, i)
             side == IF b.low < l2 /\ b.close > l2 THEN "LOW"
                     ELSE IF b.high > h2 /\ b.close < h2 THEN "HIGH"
                     ELSE "NONE"
         IN  IF side = "NONE" THEN scan(df, i + 1, found, l2, h2)
             ELSE IF SweepAt(df, i, side, l2, h2).bos
                  THEN SweepAt(df, i, side, l2, h2)
                  ELSE scan(df, i + 1, SweepAt(df, i, side, l2, h2), l2, h2)

StructureResult(st, sc) ==
    [structure |-> st, sweep |-> sc.sweep, bos |-> sc.bos,
     sweep_level |-> sc.sweep_level, sweep_index |-> sc.sweep_index,
     bos_level |-> sc.bos_level, sweep_side |-> sc.sweep_side]

compute_structure_sweep_bos(df) ==
    IF Len(df) < MinStructureBars THEN StructureResult("UNCLEAR", NoScan)
    ELSE LET sh == swing_highs(df)
             sl == swing_lows(df)
         IN  IF Cardinality(sh) < 2 \/ Cardinality(sl) < 2
             THEN StructureResult("UNCLEAR", NoScan)
             ELSE LET h2 == BarAt(df, MaxOf(sh)).high
                      l2 == BarAt(df, MaxOf(sl)).low
                      lookback == Min(Len(df) - 1, Max(ScanLookback, bos_window * 2))
                      start_idx == Max(1, Len(df) - 1 - lookback)
                  IN  StructureResult(structure_state(df, sh, sl),
                                      scan(df, start_idx, NoScan, l2, h2))

(***************************************************************************)
(* The execution series compute_structure_sweep_bos is run on: a zigzag of *)
(* 8-bar cycles (trough, four bars up to a peak, three bars down) entered  *)
(* from a steady climb, so that its troughs and peaks are the pivots       *)
(* _find_swings returns.  The last three peaks and troughs have chosen     *)
(* levels, the last bar a chosen close, and a few of the latest bars may   *)
(* carry a wick or a breakout.                                             *)
(***************************************************************************)
Zig == [base |-> 985, step |-> 5, half |-> 2, period |-> 8, peak |-> 4,
        trough |-> 981, top |-> 1009, wick_low |-> 975, wick_high |-> 1015,
        close_below |-> 976, close_above |-> 1014]

Tri(p) == IF p <= Zig.peak THEN p ELSE Zig.period - p

(* Middle of bar t: on the climb up to bar climbEnd (a peak), then the zigzag. *)
Mid(t, climbEnd) ==
    IF t <= climbEnd THEN Zig.base + Zig.step * (Zig.peak - (climbEnd - t))
    ELSE Zig.base + Zig.step * Tri(t % Zig.period)

PlainBar(t, climbEnd) ==
    [low |-> Mid(t, climbEnd) - Zig.half, high |-> Mid(t, climbEnd) + Zig.half,
     close |-> Mid(t, climbEnd)]

(* The k-th of the last three peaks (troughs) of a series of n bars, k = 1..3. *)
PeakBar(n, k) == n - 8 - Zig.period * (3 - k)
TroughBar(n, k) == n - 4 - Zig.period * (3 - k)

Shaped(bar, shape) ==
    IF shape = "LOW_WICK" THEN [bar EXCEPT !.low = Zig.wick_low]
    ELSE IF shape = "HIGH_WICK" THEN [bar EXCEPT !.high = Zig.wick_high]
    ELSE IF shape = "BREAK_UP"
        THEN [bar EXCEPT !.high = Zig.wick_high, !.close = Zig.close_above]
    ELSE IF shape = "BREAK_DOWN"
        THEN [bar EXCEPT !.low = Zig.wick_low, !.close = Zig.close_below]
    ELSE bar

(* The series described by a: a.n bars, the climb ending at bar            *)
(* a.climb_end, a.highs / a.lows the levels of the last three peaks and    *)
(* troughs, a.last_close, and a.shapes the bars carrying a wick.           *)
SeriesBar(a, t) ==
    LET plain == PlainBar(t, a.climb_end)
        levelled ==
            IF t < a.climb_end THEN plain
            ELSE IF \E k \in 1..3 : t = PeakBar(a.n, k)
                THEN [plain EXCEPT !.high =
                        a.highs[CHOOSE k \in 1..3 : t = PeakBar(a.n, k)]]
            ELSE IF \E k \in 1..3 : t = TroughBar(a.n, k)
                THEN [plain EXCEPT !.low =
                        a.lows[CHOOSE k \in 1..3 : t = TroughBar(a.n, k)]]
            ELSE IF t = a.n - 1 THEN [plain EXCEPT !.close = a.last_close]
            ELSE plain
    IN  IF t \in DOMAIN a.shapes THEN Shaped(levelled, a.shapes[t]) ELSE levelled

Series(a) == [t1 \in 1..a.n |-> SeriesBar(a, t1 - 1)]

LevelSteps == {-2, -1, 0, 1, 2}
Levels(first) == {<<first, first + d1, first + d1 + d2>> : d1 \in LevelSteps, d2 \in LevelSteps}

WickShapes == {"LOW_WICK", "HIGH_WICK", "BREAK_UP", "BREAK_DOWN"}
WickBars == {MinStructureBars - 12} \cup ((MinStructureBars - 7)..(MinStructureBars - 1))
MaxWicks == 3

(* The functions from at most MaxWicks of the wick bars to a shape. *)
WickSets ==
    UNION {[S -> WickShapes] : S \in {T \in SUBSET WickBars : Cardinality(T) <= MaxWicks}}

PlainSeries ==
    [n |-> MinStructureBars, climb_end |-> Zig.peak,
     highs |-> <<Zig.top, Zig.top, Zig.top>>, lows |-> <<Zig.trough, Zig.trough, Zig.trough>>,
     last_close |-> 1000, shapes |-> <<>>]

StructureArgs ==
    {[PlainSeries EXCEPT !.climb_end = c, !.highs = hs, !.lows = ls, !.last_close = lc] :
        c \in {Zig.peak, MinStructureBars - 16, MinStructureBars - 8},
        hs \in Levels(Zig.top), ls \in Levels(Zig.trough), lc \in {999, 1000}}
    \cup {[PlainSeries EXCEPT !.n = MinStructureBars - 1, !.highs = hs] : hs \in Levels(Zig.top)}
    \cup {[PlainSeries EXCEPT !.shapes = w] : w \in WickSets}

InitStructure ==
    /\ pc = "compute_structure_sweep_bos"
    /\ args \in StructureArgs
    /\ rules = [k \in RuleKeys |-> TRUE]
    /\ call = [use_sentiment |-> FALSE]
    /\ feed = FullFeed
    /\ news_manager = None
    /\ entry_out = None
    /\ response = None
    /\ now = 0
    /\ evals = <<>>
    /\ gates = NoGates
    /\ metrics = NoMetrics
    /\ regime = NoRegime
    /\ sent = NeutralSentiment
    /\ struct = NoStruct
    /\ payload = NoPayload

ComputeStructure ==
    /\ pc = "compute_structure_sweep_bos"
    /\ struct' = compute_structure_sweep_bos(Series(args))
    /\ pc' = "returned"
    /\ UNCHANGED <<response, now, evals, rules, call, feed, news_manager, args, entry_out, gates, metrics, regime, sent, payload>>

SpecStructure == InitStructure /\ [][ComputeStructure]_vars

(***************************************************************************)
(* compute_entry_and_risk on its own: the side, the preset, the three     *)
(* rules it reads, the stop reference it is given and the readings of the *)
(* last bars.                                                             *)
(***************************************************************************)
EntryRules == [enable_vwap : BOOLEAN, enable_volume : BOOLEAN, enable_stop_cap : BOOLEAN]
EntryPresets == Presets \cup {"turbo", "", " STRICT "}

(* The last RSI at and around the band edges of the presets, the step     *)
(* from the RSI of the bar before, the body of the last candle (close     *)
(* minus open), the gap from the close up to VWAP, <<last volume, 20-bar  *)
(* mean>>, and the distance from the close to the stop reference handed   *)
(* in (negative: on the wrong side; None: no reference).                  *)
RsiReadings == {29, 30, 35, 40, 45, 50, 55, 60, 65, 70, 71}
RsiSteps == {-1, 0, 1}
CandleBodies == {-5, 5}
VwapGaps == {-3, -1, 1, 3}
EntryVolumes == {<<130, 0>>, <<120, 100>>, <<119, 100>>, <<105, 100>>, <<104, 100>>}
StopDistances == {None, Some(-2), Some(5), Some(15), Some(25), Some(35)}

EntryCall(side, preset, r, d, body, rsi, step, gap, v) ==
    [side |-> side, preset |-> preset, rules |-> r,
     sweep_level |-> IF d = None THEN None
                     ELSE Some(IF side = "LONG" THEN Level.close - d[1]
                               ELSE Level.close + d[1]),
     x |-> [bars |-> ExecLimit, close |-> Level.close, open |-> Level.close - body,
            last_rsi |-> rsi, prev_rsi |-> rsi - step, vwap |-> Level.close + gap,
            last_vol |-> v[1], avg_vol |-> v[2],
            recent_low |-> Level.recent_low, recent_high |-> Level.recent_high]]

(* Each group of readings over its whole range, the others at one value   *)
(* that passes for a side and one that fails.                             *)
EntryFamilies ==
    {[rsis |-> RsiReadings, steps |-> RsiSteps, gaps |-> {-3, 3},
      volumes |-> {<<120, 100>>, <<104, 100>>}, distances |-> {Some(5), Some(35)}],
     [rsis |-> {50, 71}, steps |-> {-1, 1}, gaps |-> VwapGaps,
      volumes |-> EntryVolumes, distances |-> {Some(5), Some(35)}],
     [rsis |-> {50, 71}, steps |-> {-1, 1}, gaps |-> {-3, 3},
      volumes |-> {<<120, 100>>, <<130, 0>>}, distances |-> StopDistances]}

InitEntry ==
    /\ pc = "compute_entry_and_risk"
    /\ \E f \in EntryFamilies, side \in {"LONG", "SHORT"}, preset \in EntryPresets,
          r \in EntryRules, body \in CandleBodies :
          \E d \in f.distances, rsi \in f.rsis, step \in f.steps, gap \in f.gaps,
             v \in f.volumes :
              args = EntryCall(side, preset, r, d, body, rsi, step, gap, v)
    /\ rules = [k \in RuleKeys |-> TRUE]
    /\ call = [use_sentiment |-> FALSE]
    /\ feed = FullFeed
    /\ news_manager = None
    /\ entry_out = None
    /\ response = None
    /\ now = 0
    /\ evals = <<>>
    /\ gates = NoGates
    /\ metrics = NoMetrics
    /\ regime = NoRegime
    /\ sent = NeutralSentiment
    /\ struct = NoStruct
    /\ payload = NoPayload

ComputeEntry ==
    /\ pc = "compute_entry_and_risk"
    /\ entry_out' = Some(compute_entry_and_risk(args.x, args.side, args.sweep_level,
                                                args.preset, args.rules))
    /\ pc' = "returned"
    /\ UNCHANGED <<response, now, evals, rules, call, feed, news_manager, args, gates, metrics, regime, sent,
                   struct, payload>>

SpecEntry == InitEntry /\ [][ComputeEntry]_vars

(***************************************************************************)
(* The confidence heuristic on its own: the score of an accepted setup     *)
(* from the two ADX readings, the sentiment score (hundredths), the last   *)
(* volume and its 20-bar mean, and whether structure was confirmed.        *)
(***************************************************************************)
AdxReadings == {0, 12, 20, 21, 24, 30, 39, 40, 41, 60}
SentimentScores == {-100, -61, -60, -1, 0, 1, 59, 60, 61, 100}
(* Volumes whose ratio to the mean is a binary fraction or falls on no     *)
(* rounding tie, so that the float sum rounds as the exact sum does.       *)
ConfidenceVolumes ==
    {<<130, 0>>, <<99, 100>>, <<100, 100>>, <<103, 100>>, <<125, 100>>, <<150, 100>>,
     <<200, 100>>, <<250, 100>>}

InitConfidence ==
    /\ pc = "confidence_score"
    /\ \E a1 \in AdxReadings, a4 \in AdxReadings, sc \in SentimentScores,
          v \in ConfidenceVolumes, hs \in BOOLEAN :
          /\ regime = [market_regime |-> "TREND", bias |-> "LONG", adx_1h |-> a1, adx_4h |-> a4]
          /\ sent = [sentiment_score |-> sc, rising |-> sc > 0, falling |-> sc < 0]
          /\ args = [last_vol |-> v[1], vol_sma |-> v[2], has_structure |-> hs]
    /\ call \in [use_sentiment : BOOLEAN]
    /\ rules = [k \in RuleKeys |-> TRUE]
    /\ feed = FullFeed
    /\ news_manager = None
    /\ entry_out = None
    /\ response = None
    /\ now = 0
    /\ evals = <<>>
    /\ gates = NoGates
    /\ metrics = NoMetrics
    /\ struct = NoStruct
    /\ payload = NoPayload

ComputeConfidence ==
    /\ pc = "confidence_score"
    /\ payload' = [payload EXCEPT !.confidence_score =
                      confidence_score(regime, call.use_sentiment, sent, args.last_vol,
                                       args.vol_sma, args.has_structure)]
    /\ pc' = "returned"
    /\ UNCHANGED <<response, now, evals, rules, call, feed, news_manager, args, entry_out, gates, metrics, regime,
                   sent, struct>>

SpecConfidence == InitConfidence /\ [][ComputeConfidence]_vars

(***************************************************************************)
(* compute_sentiment_with_momentum on a list of news items at a clock      *)
(* reading.  An item carries published_at (None when missing or not an ISO *)
(* date), sentiment_score and sentiment_confidence in hundredths and the   *)
(* weight of its source in hundredths.  The clock counts decay half-lives  *)
(* (12 ln 2 hours), so that exp(-age_hours / 12) is 2^(-age).              *)
(***************************************************************************)
NewsItem(published, score) ==
    [published_at |-> published, sentiment_score |-> score, sentiment_confidence |-> 100,
     source_weight |-> 100]

(* published_at of an item, the clock reading when it has none. *)
PublishedAt(it, t) == IF it.published_at = None THEN t ELSE it.published_at[1]
AgeOf(it, t) == Max(0, t - PublishedAt(it, t))

(* w = w_src * decay * max(0.05, conf), times 2^t * 10^4. *)
ItemWeight(it, t) ==
    it.source_weight * (2 ^ (t - AgeOf(it, t))) * Max(5, it.sentiment_confidence)

RECURSIVE WeightedSum(_, _, _)
WeightedSum(items, t, k) ==
    IF k = 0 THEN 0
    ELSE WeightedSum(items, t, k - 1) + ItemWeight(items[k], t) * items[k].sentiment_score

RECURSIVE WeightTotal(_, _, _)
WeightTotal(items, t, k) ==
    IF k = 0 THEN 0 ELSE WeightTotal(items, t, k - 1) + ItemWeight(items[k], t)

(* n / d to the nearest hundredth kept, d > 0. *)
Quotient(n, d) == IF n >= 0 THEN RoundHalfEven(n, d) ELSE -RoundHalfEven(-n, d)

(* scored.sort(key=published_at): the position in `items` of the k-th     *)
(* item by publication time, ties in list order (the sort is stable).     *)
Before(items, t, i, j) ==
    \/ PublishedAt(items[i], t) < PublishedAt(items[j], t)
    \/ PublishedAt(items[i], t) = PublishedAt(items[j], t) /\ i < j
SortedAt(items, t, k) ==
    CHOOSE i \in DOMAIN items :
        Cardinality({j \in DOMAIN items : Before(items, t, j, i)}) = k - 1

RECURSIVE ScoreSum(_, _, _, _)
ScoreSum(items, t, from, to) ==
    IF from > to THEN 0
    ELSE items[SortedAt(items, t, from)].sentiment_score + ScoreSum(items, t, from + 1, to)

aggregate_news(items, t) ==
    LET n == Len(items)
        total == WeightTotal(items, t, n)
        agg == IF total > 0 THEN Quotient(WeightedSum(items, t, n), total) ELSE 0
        mid == n \div 2
        older == ScoreSum(items, t, 1, mid)
        recent == ScoreSum(items, t, mid + 1, n)
        (* recent / (n - mid) - older / mid, times mid * (n - mid) *)
        delta_scaled == recent * mid - older * (n - mid)
    IN  IF n = 0 THEN NeutralSentiment
        ELSE [sentiment_score |-> Max(-100, Min(100, agg)),
              rising |-> n >= 4 /\ delta_scaled > 5 * mid * (n - mid),
              falling |-> n >= 4 /\ delta_scaled < -5 * mid * (n - mid)]

(***************************************************************************)
(* Several evaluations side by side.  Each call of                         *)
(* generate_institutional_signal_debug names a symbol, a rules map, the    *)
(* sentiment flag and the news its provider returns; the candle series of  *)
(* a symbol and the rules maps are objects the calls may share.  Every     *)
(* evaluation keeps its locals and its own debug dict; a step runs one     *)
(* block of one evaluation, and the clock may tick between steps.          *)
(***************************************************************************)
Workers == {1, 2}
MaxClock == 1

(* What the provider holds for each symbol: nothing, or a series by the   *)
(* readings the blocks take from it.                                      *)
SeriesCatalogue ==
    [BTCUSDT |-> Some([regime |-> [market_regime |-> "TREND", bias |-> "LONG",
                                   adx_1h |-> 30, adx_4h |-> 30],
                       exec_rsi |-> 45,
                       st |-> [structure |-> "BULLISH", sweep |-> TRUE, bos |-> TRUE,
                               sweep_level |-> Some(Level.swing_low), sweep_side |-> "LOW"],
                       last_vol |-> 100, vol_sma |-> 100, entry_ok |-> TRUE]),
     ETHUSDT |-> Some([regime |-> [market_regime |-> "RANGE", bias |-> "NEUTRAL",
                                   adx_1h |-> 24, adx_4h |-> 12],
                       exec_rsi |-> 65,
                       st |-> [structure |-> "BULLISH", sweep |-> TRUE, bos |-> FALSE,
                               sweep_level |-> Some(Level.swing_low), sweep_side |-> "LOW"],
                       last_vol |-> 100, vol_sma |-> 100, entry_ok |-> FALSE]),
     XRPUSDT |-> None]

RulesCatalogue ==
    [defaults |-> [k \in RuleKeys |-> TRUE],
     no_regime |-> [k \in RuleKeys |-> k # "enable_regime"],
     entry_only |-> [k \in RuleKeys |->
                        k \notin {"enable_regime", "enable_structure", "enable_alignment"}]]

SteadyNews ==
    <<NewsItem(Some(0), 40), NewsItem(Some(0), 60), NewsItem(Some(0), 80),
      NewsItem(Some(0), 100)>>
UndatedNews ==
    <<NewsItem(Some(0), 30), NewsItem(Some(0), 40), NewsItem(Some(0), 50),
      NewsItem(None, 100)>>

Calls ==
    [symbol : DOMAIN SeriesCatalogue, rules : DOMAIN RulesCatalogue,
     use_sentiment : BOOLEAN, news : {SteadyNews, UndatedNews}]

Blocks == <<"start", "data", "market_regime", "sentiment", "structure", "alignment", "entry">>

StartLocals ==
    [pc |-> "start", enable |-> None, gates |-> NoGates, regime |-> NoRegime,
     sent |-> NeutralSentiment, read_at |-> None, payload |-> NoPayload]

Rejected_(loc, gate, explain) ==
    [loc EXCEPT !.gates[gate] = "FALSE", !.payload = no_trade_payload(gate, explain),
                !.pc = "done"]

(* One block of the function body on the locals of one evaluation. *)
RunBlock(c, loc, t) ==
    LET df == args.series[c.symbol][1]
        bias == loc.regime.bias
    IN
    IF loc.pc = "start" THEN
        [loc EXCEPT !.enable = Some(args.rules[c.rules]), !.pc = "data"]
    ELSE IF loc.pc = "data" THEN
        IF args.series[c.symbol] = None
        THEN Rejected_(loc, "data", <<"Failed to fetch candles for one or more timeframes.">>)
        ELSE [loc EXCEPT !.gates.data = "TRUE", !.pc = "market_regime"]
    ELSE IF loc.pc = "market_regime" THEN
        LET en == loc.enable[1].enable_regime
            res == regime_in_force(df.regime, en, df.exec_rsi)
            seen == [loc EXCEPT !.regime = res]
        IN  IF ~en THEN [seen EXCEPT !.gates.market_regime = "SKIPPED", !.pc = "sentiment"]
            ELSE IF res.market_regime = "RANGE"
            THEN Rejected_(seen, "market_regime",
                   <<"Higher timeframes are range-bound (ADX too low); waiting for trending conditions.">>)
            ELSE IF res.bias = "NEUTRAL"
            THEN Rejected_(seen, "market_regime",
                   <<"Higher timeframes do not agree on a clear directional bias.">>)
            ELSE [seen EXCEPT !.gates.market_regime = "TRUE", !.pc = "sentiment"]
    ELSE IF loc.pc = "sentiment" THEN
        LET s == IF c.use_sentiment THEN aggregate_news(c.news, t) ELSE NeutralSentiment
            seen == [loc EXCEPT !.sent = s,
                                !.read_at = IF c.use_sentiment THEN Some(t) ELSE None]
        IN  IF ~c.use_sentiment
            THEN [seen EXCEPT !.gates.sentiment = "SKIPPED", !.pc = "structure"]
            ELSE IF SentimentRejects(bias, s)
            THEN Rejected_(seen, "sentiment",
                   <<IF bias = "LONG" THEN "Sentiment gate rejected the setup for LONG bias."
                     ELSE "Sentiment gate rejected the setup for SHORT bias.">>)
            ELSE [seen EXCEPT !.gates.sentiment = "TRUE", !.pc = "structure"]
    ELSE IF loc.pc = "structure" THEN
        IF loc.enable[1].enable_structure /\ SweepMismatch(df.st, bias)
        THEN Rejected_(loc, "structure",
               <<IF bias = "LONG"
                 THEN "Sweep direction does not match LONG bias (expected LOW sweep)."
                 ELSE "Sweep direction does not match SHORT bias (expected HIGH sweep).">>)
        ELSE [loc EXCEPT !.gates.structure =
                             IF has_structure(df.st, FALSE) THEN "TRUE" ELSE "FALSE",
                         !.gates.structure_state = df.st.structure,
                         !.pc = "alignment"]
    ELSE IF loc.pc = "alignment" THEN
        IF ~loc.enable[1].enable_alignment
        THEN [loc EXCEPT !.gates.alignment = "SKIPPED", !.pc = "entry"]
        ELSE IF AlignmentMismatch(df.st, bias)
        THEN Rejected_(loc, "alignment",
               <<IF bias = "LONG" THEN "Structure direction does not align with LONG bias."
                 ELSE "Structure direction does not align with SHORT bias.">>)
        ELSE [loc EXCEPT !.gates.alignment = "TRUE", !.pc = "entry"]
    ELSE
        IF ~df.entry_ok
        THEN Rejected_(loc, "entry", <<"RSI condition not met">>)
        ELSE [loc EXCEPT
                !.gates.entry = "TRUE",
                !.payload = [NoPayload EXCEPT
                    !.signal = bias,
                    !.confidence_score =
                        confidence_score(loc.regime, c.use_sentiment, loc.sent, df.last_vol,
                                         df.vol_sma, has_structure(df.st, FALSE)),
                    !.risk_level = risk_level(loc.enable[1])],
                !.pc = "done"]

(* The evaluation run from its start to its end with nothing beside it,   *)
(* the clock reading t at its sentiment block.                            *)
RECURSIVE RunAlone(_, _, _)
RunAlone(c, loc, t) == IF loc.pc = "done" THEN loc ELSE RunAlone(c, RunBlock(c, loc, t), t)

(* The debug dict an evaluation writes its gate records to: its own,      *)
(* created at the top of the call.                                        *)
DebugOf_ModuleLevel(w) == 1

DebugOf(w) == w

InitConcurrent ==
    /\ pc = "evaluations"
    /\ \E c1 \in Calls, c2 \in Calls :
          args = [calls |-> [w \in Workers |-> IF w = 1 THEN c1 ELSE c2],
                  series |-> SeriesCatalogue, rules |-> RulesCatalogue]
    /\ evals = [w \in Workers |-> StartLocals]
    /\ now = 0
    /\ rules = [k \in RuleKeys |-> TRUE]
    /\ call = [use_sentiment |-> FALSE]
    /\ feed = FullFeed
    /\ news_manager = None
    /\ entry_out = None
    /\ response = None
    /\ gates = NoGates
    /\ metrics = NoMetrics
    /\ regime = NoRegime
    /\ sent = NeutralSentiment
    /\ struct = NoStruct
    /\ payload = NoPayload

(* Evaluation w runs its next block. *)
Block(w) ==
    /\ pc = "evaluations"
    /\ evals[w].pc # "done"
    /\ LET own == evals[w]
           nxt == RunBlock(args.calls[w], [own EXCEPT !.gates = evals[DebugOf(w)].gates], now)
       IN  evals' = [v \in Workers |->
                       LET base == IF v = w THEN [nxt EXCEPT !.gates = own.gates]
                                   ELSE evals[v]
                       IN  IF v = DebugOf(w) THEN [base EXCEPT !.gates = nxt.gates]
                           ELSE base]
    /\ UNCHANGED <<response, pc, rules, call, feed, news_manager, args, entry_out, gates, metrics,
                   regime, sent, struct, payload, now>>

(* Time passes between two blocks. *)
Tick ==
    /\ pc = "evaluations"
    /\ now < MaxClock
    /\ now' = now + 1
    /\ UNCHANGED <<response, pc, rules, call, feed, news_manager, args, entry_out, gates, metrics,
                   regime, sent, struct, payload, evals>>

NextConcurrent ==
    \/ \E w \in Workers : Block(w)
    \/ Tick

SpecConcurrent == InitConcurrent /\ [][NextConcurrent]_vars

(***************************************************************************)
(* Properties.                                                             *)
(***************************************************************************)
Emitted == payload.signal \in {"LONG", "SHORT"}

GateEnabled(g) ==
    IF g = "market_regime" THEN rules.enable_regime
    ELSE IF g = "sentiment" THEN call.use_sentiment
    ELSE IF g = "structure" THEN rules.enable_structure
    ELSE IF g = "alignment" THEN rules.enable_alignment
    ELSE TRUE

Earlier(g) == {h \in GateNames : GateIndex(h) < GateIndex(g)}
Later(g) == {h \in GateNames : GateIndex(h) > GateIndex(g)}

PricesNull ==
    /\ payload.entry_price = None
    /\ payload.stop_loss = None
    /\ payload.take_profit = None

AllSixOff == \A k \in RuleKeys : ~rules[k]

(* The feed fails the data-availability gate: no provider, or a series that *)
(* is missing or empty.                                                     *)
DataUnavailable ==
    \/ ~feed.provider
    \/ \E srs \in {feed.df_1h, feed.df_4h, feed.df_exec} : srs = None \/ srs = Some(0)

(* Every series is there and non-empty, and one is shorter than the minimum. *)
TooShort ==
    /\ ~DataUnavailable
    /\ \/ feed.df_1h[1] < EmaLength
       \/ feed.df_4h[1] < EmaLength
       \/ feed.df_exec[1] < MinStructureBars

(* C1: whenever the payload's signal is LONG or SHORT, no enabled gate is   *)
(* recorded as failed (False) in the diagnostics of that evaluation.        *)
C1_EnabledGatesPassed ==
    Emitted => \A g \in GateNames : GateEnabled(g) => gates[g] # "FALSE"

(* C2: gate independence: when an evaluation ends with an enabled gate's   *)
(* check recorded failed and no gate before it in the pipeline order        *)
(* failed, the result is NO_TRADE with failed_gate naming that gate.        *)
C2_GateIndependence ==
    \A g \in GateNames :
        (/\ pc = "done"
         /\ GateEnabled(g)
         /\ gates[g] = "FALSE"
         /\ \A h \in Earlier(g) : gates[h] # "FALSE")
        => (payload.signal = "NO_TRADE" /\ payload.failed_gate = g)

(* C3: when the data-availability gate fails, the result is NO_TRADE with   *)
(* failed_gate "data", the price fields are null, and no later gate is      *)
(* evaluated or recorded.                                                   *)
C3_DataFailureIsNoTrade ==
    (pc # "data" /\ DataUnavailable) =>
        /\ pc = "done"
        /\ payload.signal = "NO_TRADE"
        /\ payload.failed_gate = "data"
        /\ PricesNull
        /\ gates.data = "FALSE"
        /\ \A g \in DOMAIN gates : g # "data" => gates[g] = "ABSENT"
        /\ regime = NoRegime /\ struct = NoStruct

C3_Witness ==
    /\ pc = "done"
    /\ feed.provider /\ feed.df_exec = Some(0)
    /\ payload.failed_gate = "data"

(* C4: a series that is present and non-empty but too short (under 200 bars *)
(* for 1h/4h, under 60 for the execution series) is a data-gate failure:    *)
(* NO_TRADE with failed_gate "data", and no regime, structure or entry      *)
(* computation is run on it.                                                *)
C4_TooShortIsDataFailure ==
    (pc # "data" /\ TooShort) =>
        /\ gates.data = "FALSE"
        /\ payload.signal = "NO_TRADE"
        /\ payload.failed_gate = "data"
        /\ regime = NoRegime /\ struct = NoStruct

(* C5: every NO_TRADE payload has reason "insufficient confluence", a       *)
(* failed_gate naming the gate that rejected (recorded failed, nothing      *)
(* recorded after it), at least one explain sentence, and null entry_price, *)
(* stop_loss, take_profit and risk_reward.                                  *)
C5_NoTradeShape ==
    payload.signal = "NO_TRADE" =>
        /\ pc = "done"
        /\ payload.reason = "insufficient confluence"
        /\ payload.failed_gate \in GateNames
        /\ gates[payload.failed_gate] = "FALSE"
        /\ \A h \in Later(payload.failed_gate) : gates[h] = "ABSENT"
        /\ Len(payload.explain) >= 1
        /\ PricesNull
        /\ payload.risk_reward = None

C5_Witness ==
    /\ payload.signal = "NO_TRADE"
    /\ payload.failed_gate = "entry"
    /\ Len(payload.explain) >= 2

(* C6: gates are recorded in the fixed order data, market_regime,           *)
(* sentiment, structure, alignment, entry, and once a gate is recorded as   *)
(* failed the evaluation is over with NO_TRADE and no later gate has a      *)
(* state.                                                                   *)
C6_ShortCircuitOnFirstFail ==
    /\ \A g \in GateNames : gates[g] # "ABSENT" => \A h \in Earlier(g) : gates[h] # "ABSENT"
    /\ \A g \in GateNames : gates[g] = "FALSE" =>
            /\ pc = "done"
            /\ payload.signal = "NO_TRADE"
            /\ \A h \in Later(g) : gates[h] = "ABSENT"

(* C7: a gate the configuration disables is recorded SKIPPED, never passed  *)
(* or failed, and never is the failed_gate of a NO_TRADE.                   *)
C7_DisabledGatesSkipped ==
    \A g \in {"market_regime", "sentiment", "structure", "alignment"} :
        ~GateEnabled(g) => (gates[g] \in {"ABSENT", "SKIPPED"} /\ payload.failed_gate # g)

(* C8: with all six toggles off (sentiment gating off) and the data gate    *)
(* passed, the evaluation returns a LONG or SHORT payload with entry, stop  *)
(* and target populated and risk_level HIGH, carrying the demo markers when *)
(* the entry rules failed; it never returns NO_TRADE and never raises.      *)
C8_RsiOnlyAlwaysTrades ==
    (pc = "done" /\ AllSixOff /\ ~call.use_sentiment /\ gates.data = "TRUE") =>
        /\ Emitted
        /\ payload.entry_price # None
        /\ payload.stop_loss # None
        /\ payload.take_profit # None
        /\ payload.risk_level = "HIGH"
        /\ gates.entry = "FALSE" =>
              /\ payload.warnings # <<>>
              /\ payload.warnings[Len(payload.warnings)] = "DEMO_FORCE_TRADE"
              /\ payload.invalidate_if = <<"do_not_use_in_real_trading">>

(* C9 as claimed: in every configuration with at least one toggle still on, *)
(* the direction of an emitted LONG/SHORT is the bias the regime classifier *)
(* computed from the 1h and 4h series.                                      *)
C9_DirectionFromClassifier ==
    (Emitted /\ ~AllSixOff) => payload.signal = metrics.bias

(* C9 as amended: the direction of an emitted LONG/SHORT is the regime      *)
(* classifier's bias whenever the regime gate is enabled, and is the        *)
(* direction of the execution RSI (SHORT at 50 or more, LONG below)         *)
(* whenever the regime gate is disabled, whatever the other toggles.        *)
C9_DirectionByRegimeToggle ==
    Emitted =>
        IF rules.enable_regime
        THEN payload.signal = metrics.bias /\ metrics.exec_rsi = None
        ELSE /\ metrics.exec_rsi # None
             /\ payload.signal = (IF metrics.exec_rsi[1] >= 50 THEN "SHORT" ELSE "LONG")

C9_Witness ==
    /\ Emitted
    /\ ~rules.enable_regime /\ rules.enable_structure /\ rules.enable_alignment
    /\ metrics.bias # payload.signal

(* C10: compute_regime is RANGE / NEUTRAL when adx_4h < 20 whatever the 1h  *)
(* readings; otherwise TREND, with bias LONG exactly when both closes are   *)
(* above their 200-EMAs, SHORT exactly when both are below, and NEUTRAL on  *)
(* any disagreement or equality.                                            *)
C10_RegimeTable ==
    pc = "returned" =>
        IF args.adx_4h < 20
        THEN regime.market_regime = "RANGE" /\ regime.bias = "NEUTRAL"
        ELSE /\ regime.market_regime = "TREND"
             /\ regime.bias \in {"LONG", "SHORT", "NEUTRAL"}
             /\ regime.bias = "LONG" <=>
                   (args.price_4h > args.ema200_4h /\ args.price_1h > args.ema200_1h)
             /\ regime.bias = "SHORT" <=>
                   (args.price_4h < args.ema200_4h /\ args.price_1h < args.ema200_1h)

C10_Witness ==
    /\ pc = "returned"
    /\ args.adx_4h >= 20 /\ args.adx_1h < 20
    /\ regime.market_regime = "TREND" /\ regime.bias = "LONG"

(* The sentiment block has run. *)
SentimentDone == gates.sentiment # "ABSENT"

SentimentAgrees ==
    \/ regime.bias = "LONG" /\ sent.sentiment_score >= 60 /\ sent.rising
    \/ regime.bias = "SHORT" /\ sent.sentiment_score <= -60 /\ sent.falling

(* C11: with sentiment gating enabled the sentiment gate is passed only    *)
(* when (bias LONG, score >= 0.6, rising) or (bias SHORT, score <= -0.6,    *)
(* falling); every other combination returns NO_TRADE with failed_gate     *)
(* "sentiment".  With sentiment gating disabled the gate never rejects.    *)
C11_SentimentRule ==
    SentimentDone =>
        IF call.use_sentiment
        THEN IF SentimentAgrees
             THEN gates.sentiment = "TRUE" /\ payload.failed_gate # "sentiment"
             ELSE /\ gates.sentiment = "FALSE"
                  /\ pc = "done"
                  /\ payload.signal = "NO_TRADE"
                  /\ payload.failed_gate = "sentiment"
        ELSE gates.sentiment # "FALSE" /\ payload.failed_gate # "sentiment"

C11_Witness ==
    /\ call.use_sentiment
    /\ gates.sentiment = "TRUE"
    /\ regime.bias = "SHORT"
    /\ pc = "done"

NewsAbsent ==
    /\ news_manager # None
    /\ news_manager[1].kind \in {"NO_MANAGER", "EMPTY"}

(* C12: with no news provider or an empty news list the sentiment result   *)
(* is the neutral aggregate, and the evaluation does not end in NO_TRADE   *)
(* because of sentiment.                                                   *)
C12_NoNewsDoesNotReject ==
    NewsAbsent =>
        /\ sent = NeutralSentiment
        /\ gates.sentiment # "FALSE"
        /\ payload.failed_gate # "sentiment"

(* The levels of the swings the classification looks at: all three of the *)
(* last peaks (troughs) when the zigzag has three or more, the last two   *)
(* when the climb leaves only two.                                        *)
SwingsUsed(levels) ==
    IF args.climb_end = Zig.peak THEN levels ELSE SubSeq(levels, 2, 3)

Ascending(v) == \A k \in 2..Len(v) : 1000 * (v[k] - v[k - 1]) > args.last_close
Descending(v) == \A k \in 2..Len(v) : 1000 * (v[k - 1] - v[k]) > args.last_close

(* C13: over the most recent two or three swing highs and lows, both      *)
(* strictly ascending is BULLISH, both strictly descending is BEARISH,    *)
(* anything else (also fewer than two swings a side, or under 60 bars) is *)
(* UNCLEAR; a step counts only when it is more than 0.1% of the last      *)
(* close; BULLISH and BEARISH are never both satisfied.                   *)
C13_StructureTable ==
    (pc = "returned" /\ args.shapes = <<>>) =>
        /\ ~(Ascending(SwingsUsed(args.highs)) /\ Descending(SwingsUsed(args.highs)))
        /\ struct.structure =
             IF args.n < 60 \/ args.climb_end > args.n - 16 THEN "UNCLEAR"
             ELSE IF Ascending(SwingsUsed(args.highs)) /\ Ascending(SwingsUsed(args.lows))
                  THEN "BULLISH"
             ELSE IF Descending(SwingsUsed(args.highs)) /\ Descending(SwingsUsed(args.lows))
                  THEN "BEARISH"
             ELSE "UNCLEAR"

C13_Witness ==
    /\ pc = "returned" /\ args.shapes = <<>>
    /\ args.climb_end = args.n - 16
    /\ args.last_close = 1000
    /\ args.highs[3] = args.highs[2] - 2
    /\ struct.structure = "BEARISH"

(* The bars the sweep scan visits, the swing levels it compares with, and *)
(* what makes a bar a sweep and confirms it, stated on the series.        *)
ScanWindow(df) == (Len(df) - 11)..(Len(df) - 2)
LastSwingLow(df) == BarAt(df, MaxOf(swing_lows(df))).low
LastSwingHigh(df) == BarAt(df, MaxOf(swing_highs(df))).high
Scanned(df) ==
    /\ Len(df) >= 60
    /\ Cardinality(swing_highs(df)) >= 2
    /\ Cardinality(swing_lows(df)) >= 2

LowSweepBar(df, i, level) == BarAt(df, i).low < level /\ BarAt(df, i).close > level
HighSweepBar(df, i, level) == BarAt(df, i).high > level /\ BarAt(df, i).close < level

PreHigh(df, i) == MaxOf({BarAt(df, j).high : j \in Max(0, i - 10)..(i - 1)})
PreLow(df, i) == MinOf({BarAt(df, j).low : j \in Max(0, i - 10)..(i - 1)})
BreakUpAfter(df, i) ==
    \E j \in (i + 1)..Min(Len(df) - 1, i + 5) : BarAt(df, j).high > PreHigh(df, i)
BreakDownAfter(df, i) ==
    \E j \in (i + 1)..Min(Len(df) - 1, i + 5) : BarAt(df, j).low < PreLow(df, i)

(* The swing low before bar i: the low of the latest pivot low before it. *)
PriorSwingLows(df, i) == {k \in swing_lows(df) : k < i}

(* C14 as claimed: any series with a bar that undercuts the prior swing   *)
(* low and closes back above it, followed within bos_window bars by a bar *)
(* whose high exceeds the pre-sweep local high, gives sweep = true,       *)
(* sweep_side = LOW and bos = true.                                       *)
C14_AnySweepThenBreak ==
    LET df == Series(args) IN
    (/\ pc = "returned"
     /\ \E i \in 1..(Len(df) - 2) :
          /\ PriorSwingLows(df, i) # {}
          /\ LowSweepBar(df, i, BarAt(df, MaxOf(PriorSwingLows(df, i))).low)
          /\ BreakUpAfter(df, i))
    => (struct.sweep /\ struct.sweep_side = "LOW" /\ struct.bos)

(* A LOW-side sweep the scan can report: in the scan window, against the  *)
(* most recent swing low of the series, confirmed, and with no HIGH-side  *)
(* sweep confirmed earlier in the window.                                 *)
LowSweepInWindow(df) ==
    /\ Scanned(df)
    /\ \E i \in ScanWindow(df) :
          /\ LowSweepBar(df, i, LastSwingLow(df))
          /\ BreakUpAfter(df, i)
          /\ \A k \in ScanWindow(df) :
                k < i => ~(/\ ~LowSweepBar(df, k, LastSwingLow(df))
                           /\ HighSweepBar(df, k, LastSwingHigh(df))
                           /\ BreakDownAfter(df, k))

(* C14 as amended: in a series of 60 bars or more with two swings a side, *)
(* a bar among the 10 before the last bar that undercuts the most recent  *)
(* swing low of the series and closes back above it, followed within      *)
(* bos_window bars by a high above the 10-bar pre-sweep high, with no     *)
(* HIGH-side sweep confirmed earlier in those 10 bars, gives sweep = true,*)
(* sweep_side = LOW and bos = true.                                       *)
C14_SweepInWindowThenBreak ==
    (pc = "returned" /\ LowSweepInWindow(Series(args)))
    => (struct.sweep /\ struct.sweep_side = "LOW" /\ struct.bos)

C14_Witness ==
    /\ pc = "returned"
    /\ LowSweepInWindow(Series(args))
    /\ struct.sweep_index = Some(args.n - 3)
    /\ struct.bos_level = Some(Zig.top)

(* The bars of the scan window that qualify as a sweep, and those of them *)
(* whose BOS is confirmed within bos_window bars.                         *)
Qualifying(df) ==
    {i \in ScanWindow(df) :
        LowSweepBar(df, i, LastSwingLow(df)) \/ HighSweepBar(df, i, LastSwingHigh(df))}
SideOf(df, i) == IF LowSweepBar(df, i, LastSwingLow(df)) THEN "LOW" ELSE "HIGH"
Confirmed(df) ==
    {i \in Qualifying(df) :
        IF SideOf(df, i) = "LOW" THEN BreakUpAfter(df, i) ELSE BreakDownAfter(df, i)}

(* C15 as claimed: the sweep reported is the most recent qualifying bar   *)
(* of the scan window, and BOS is confirmed only by a bar within          *)
(* bos_window bars after that bar.                                        *)
C15_MostRecentSweep ==
    LET df == Series(args) IN
    (pc = "returned" /\ Scanned(df) /\ Qualifying(df) # {}) =>
        /\ struct.sweep
        /\ struct.sweep_index = Some(MaxOf(Qualifying(df)))
        /\ struct.sweep_side = SideOf(df, MaxOf(Qualifying(df)))
        /\ struct.bos => MaxOf(Qualifying(df)) \in Confirmed(df)

(* C15 as amended: the sweep reported is the earliest qualifying bar of   *)
(* the scan window whose BOS is confirmed within bos_window bars after    *)
(* it, or, when no qualifying bar is confirmed, the most recent           *)
(* qualifying bar; BOS is confirmed only by a bar within bos_window bars  *)
(* after the reported bar, never by a bar beyond the window.              *)
C15_EarliestConfirmedSweep ==
    LET df == Series(args)
        reported == IF Confirmed(df) # {} THEN MinOf(Confirmed(df))
                    ELSE MaxOf(Qualifying(df))
    IN  (pc = "returned" /\ Scanned(df)) =>
            IF Qualifying(df) = {}
            THEN ~struct.sweep /\ ~struct.bos /\ struct.sweep_index = None
            ELSE /\ struct.sweep
                 /\ struct.sweep_index = Some(reported)
                 /\ struct.sweep_side = SideOf(df, reported)
                 /\ struct.bos = (reported \in Confirmed(df))

C15_Witness ==
    LET df == Series(args) IN
    /\ pc = "returned" /\ Scanned(df)
    /\ Cardinality(Qualifying(df)) >= 2
    /\ struct.bos
    /\ struct.sweep_index # Some(MaxOf(Qualifying(df)))

(* The structure block has run. *)
StructureDone == struct # NoStruct /\ pc \notin {"compute_structure_sweep_bos", "returned"}

WrongSideSweep ==
    /\ struct.sweep
    /\ \/ regime.bias = "LONG" /\ struct.sweep_side = "HIGH"
       \/ regime.bias = "SHORT" /\ struct.sweep_side = "LOW"

(* C16: with the structure gate enabled, a detected sweep on the wrong    *)
(* side for the bias (LONG with HIGH, SHORT with LOW) always gives        *)
(* NO_TRADE with failed_gate "structure"; with no sweep detected the side *)
(* check is skipped and the evaluation goes on to the alignment block.    *)
C16_SweepSideGate ==
    StructureDone =>
        /\ (rules.enable_structure /\ WrongSideSweep) =>
              /\ pc = "done"
              /\ payload.signal = "NO_TRADE"
              /\ payload.failed_gate = "structure"
              /\ gates.alignment = "ABSENT" /\ gates.entry = "ABSENT"
        /\ ~struct.sweep =>
              /\ payload.failed_gate # "structure"
              /\ pc = "alignment" \/ gates.alignment # "ABSENT"

C16_Witness ==
    /\ StructureDone
    /\ rules.enable_structure
    /\ regime.bias = "SHORT" /\ struct.sweep /\ struct.sweep_side = "LOW" /\ struct.bos
    /\ payload.failed_gate = "structure"

(***************************************************************************)
(* Entry and risk on its own (SpecEntry).                                  *)
(***************************************************************************)
EntryReturned == pc = "returned" /\ entry_out # None
EntryResult == entry_out[1]
Planned == EntryReturned /\ EntryResult.kind = "PLAN"
Rejected == EntryReturned /\ EntryResult.kind = "NONE"

CandleWithSide ==
    IF args.side = "LONG" THEN args.x.close > args.x.open ELSE args.x.close < args.x.open

(* C17: compute_entry_and_risk returns a result only when the latest      *)
(* candle closes in the direction of the side: above its open for LONG,   *)
(* below its open for SHORT, whatever the rule toggles are.               *)
C17_CandleEnforced == Planned => CandleWithSide

(* The RSI band and the momentum requirement of each preset, by name.     *)
NamedPreset ==
    IF args.preset \in {"strict", " STRICT "} THEN "strict"
    ELSE IF args.preset = "aggressive" THEN "aggressive"
    ELSE "balanced"

RsiBand ==
    IF NamedPreset = "strict" THEN IF args.side = "LONG" THEN <<40, 50>> ELSE <<50, 60>>
    ELSE IF NamedPreset = "aggressive" THEN IF args.side = "LONG" THEN <<30, 60>> ELSE <<40, 70>>
    ELSE IF args.side = "LONG" THEN <<35, 55>> ELSE <<45, 65>>

RsiInBand == RsiBand[1] <= args.x.last_rsi /\ args.x.last_rsi <= RsiBand[2]

RsiTurned ==
    IF args.side = "LONG" THEN args.x.last_rsi > args.x.prev_rsi
    ELSE args.x.last_rsi < args.x.prev_rsi

(* C18: under every combination of the rule toggles,                      *)
(* compute_entry_and_risk returns a result only if the latest RSI lies in *)
(* the preset's band for the side (strict 40-50 / 50-60, balanced 35-55 / *)
(* 45-65, aggressive 30-60 / 40-70) and, for strict and balanced, the RSI *)
(* moved in the trade direction against the bar before; a preset name     *)
(* that is none of the three gives exactly the outcome balanced gives.    *)
C18_RsiAlwaysEnforced ==
    /\ Planned => /\ RsiInBand
                  /\ NamedPreset # "aggressive" => RsiTurned
    /\ (EntryReturned /\ args.preset \in {"turbo", ""}) =>
          EntryResult = compute_entry_and_risk(args.x, args.side, args.sweep_level,
                                               "balanced", args.rules)

C18_Witness ==
    /\ Planned
    /\ args.preset = "turbo" /\ args.side = "SHORT"
    /\ args.rules = [enable_vwap |-> FALSE, enable_volume |-> FALSE, enable_stop_cap |-> FALSE]
    /\ args.x.last_rsi = 65 /\ args.x.prev_rsi = 66

(* The volume check is on: enable_volume is set and the preset asks for   *)
(* volume (every preset but aggressive).                                  *)
VolumeEnabled == args.rules.enable_volume /\ NamedPreset # "aggressive"
VolumeMultiple == IF NamedPreset = "strict" THEN 120 ELSE 105

(* The outcome of the same call on a series that differs only in its      *)
(* volumes: a latest volume of 120 against a 20-bar average of 100.       *)
WithAmpleVolume ==
    compute_entry_and_risk([args.x EXCEPT !.last_vol = 120, !.avg_vol = 100],
                           args.side, args.sweep_level, args.preset, args.rules)

(* C19: with the volume check enabled a result requires the latest volume *)
(* to be at least the preset's multiple (strict 1.20, balanced 1.05) of   *)
(* the 20-bar average; with it disabled (enable_volume off, or the        *)
(* aggressive preset) the volumes never cause a rejection: whatever the   *)
(* latest and average volume are, a zero average included, the call       *)
(* returns a result whenever it does on ample volume.                     *)
C19_VolumeTogglable ==
    /\ (Planned /\ VolumeEnabled) =>
          args.x.last_vol * 100 >= VolumeMultiple * args.x.avg_vol
    /\ (EntryReturned /\ ~VolumeEnabled) => EntryResult.kind = WithAmpleVolume.kind

(* The preset's cap on stop distance over entry price, in thousandths.    *)
CapFraction ==
    IF NamedPreset = "strict" THEN 10 ELSE IF NamedPreset = "aggressive" THEN 30 ELSE 20

(* Stop distance of the call, in thousandths of a price unit, and whether *)
(* it is wider than the preset's fraction of the entry price.             *)
StopDistance == EntryRisk(args.side, args.sweep_level, args.x)
WiderThanCap == StopDistance > CapFraction * args.x.close

(* The outcome of the same call with a stop reference 5 from the close.   *)
WithNarrowStop ==
    compute_entry_and_risk(args.x, args.side,
                           Some(IF args.side = "LONG" THEN args.x.close - 5
                                ELSE args.x.close + 5),
                           args.preset, args.rules)

(* C20: with the stop-width cap enabled, compute_entry_and_risk returns   *)
(* no result whenever stop distance over entry price exceeds the preset's *)
(* fraction (strict 1%, balanced 2%, aggressive 3%), so every result      *)
(* under an enabled cap has |entry_price - stop_loss| <= fraction *       *)
(* entry_price; with the cap disabled the width of a stop on the right    *)
(* side of the entry never rejects.                                       *)
C20_StopWidthCap ==
    /\ (EntryReturned /\ args.rules.enable_stop_cap /\ WiderThanCap) => Rejected
    /\ (Planned /\ args.rules.enable_stop_cap) =>
          Abs(EntryResult.entry_price - EntryResult.stop_loss) * 1000
              <= CapFraction * EntryResult.entry_price
    /\ (EntryReturned /\ ~args.rules.enable_stop_cap /\ StopDistance > 0) =>
          EntryResult.kind = WithNarrowStop.kind

C20_Witness ==
    /\ Rejected
    /\ args.rules.enable_stop_cap /\ args.preset = "balanced" /\ args.sweep_level = None
    /\ EntryResult.checks.stop_width_ok = "FALSE"
    /\ EntryResult.checks.rsi_ok /\ EntryResult.checks.rsi_momentum_ok
    /\ EntryResult.checks.vwap_ok /\ EntryResult.checks.avg_vol_ok
    /\ EntryResult.checks.effective_volume_ok
    /\ WithNarrowStop.kind = "PLAN"

(***************************************************************************)
(* The emitted payload: prices, confidence and risk label (Spec).          *)
(***************************************************************************)
Priced ==
    /\ pc = "done"
    /\ payload.entry_price # None /\ payload.stop_loss # None /\ payload.take_profit # None

(* The reference the stop is placed beyond: the one the structure block   *)
(* handed to the entry step, or the 20-bar extreme on the forced path.    *)
StopReference ==
    IF gates.entry = "TRUE" THEN struct.stop_ref[1]
    ELSE IF payload.signal = "LONG" THEN Level.recent_low ELSE Level.recent_high

(* C21: in every payload with entry_price, stop_loss and take_profit      *)
(* populated, the target is twice as far from the entry as the stop, the  *)
(* stop is strictly on the loss side (stop < entry < target for LONG,     *)
(* target < entry < stop for SHORT), and the stop is the stop reference   *)
(* moved 0.1% beyond it (x0.999 for LONG, x1.001 for SHORT).              *)
C21_RiskInvariant ==
    Priced =>
        LET e == payload.entry_price[1]
            s == payload.stop_loss[1]
            t == payload.take_profit[1]
        IN  /\ Emitted
            /\ Abs(t - e) = 2 * Abs(e - s)
            /\ payload.signal = "LONG" => (s < e /\ e < t /\ s = StopReference * 999)
            /\ payload.signal = "SHORT" => (t < e /\ e < s /\ s = StopReference * 1001)

C21_Witness ==
    /\ Priced
    /\ payload.signal = "SHORT"
    /\ struct.sweep /\ struct.sweep_side = "HIGH"
    /\ payload.stop_loss = Some(Level.swing_high * 1001)
    /\ payload.take_profit = Some(Level.close * 1000 - 2 * (Level.swing_high * 1001 - Level.close * 1000))

(***************************************************************************)
(* The confidence heuristic on its own (SpecConfidence).                   *)
(***************************************************************************)
Scored == pc = "returned" /\ args.vol_sma >= 0
Score == payload.confidence_score

(* The three contributions, each times 2 * VolDen so that they are whole: *)
(* |sentiment| * 50 clipped to 0..50 and zero with gating off, 1.5 points *)
(* per ADX point of the weaker reading above 20 clipped to 0..30, and 20  *)
(* points per unit of last volume over its mean beyond 1 clipped to 0..20 *)
(* (nothing when the mean is 0).                                          *)
VolDen == IF args.vol_sma > 0 THEN args.vol_sma ELSE 1
SentimentPart ==
    IF call.use_sentiment THEN Min(100 * VolDen, Abs(sent.sentiment_score) * VolDen) ELSE 0
WeakerAdx == Min(regime.adx_1h, regime.adx_4h)
AdxPart == Min(60 * VolDen, Max(0, 3 * (WeakerAdx - 20) * VolDen))
VolumePart ==
    IF args.vol_sma > 0 THEN Min(40 * VolDen, Max(0, 40 * (args.last_vol - args.vol_sma)))
    ELSE 0
RoundedSum == RoundHalfEven(SentimentPart + AdxPart + VolumePart, 2 * VolDen)

(* C22 as claimed: the confidence score of every accepted setup is an     *)
(* integer in 0..100 equal to the (rounded) sum of the sentiment part in  *)
(* 0..50, zero with sentiment gating off, the ADX part in 0..30 and the   *)
(* volume part in 0..20, hence at most 50 with sentiment gating off.      *)
C22_ScoreIsSum ==
    Scored =>
        /\ Score \in 0..100
        /\ Score = RoundedSum
        /\ ~call.use_sentiment => Score <= 50

(* C22 amended: the score is an integer in 0..100, at most 50 with        *)
(* sentiment gating off; it is the rounded sum of the three clipped       *)
(* contributions when structure confirmation is present, and that sum     *)
(* scaled by 0.55, rounded, and floored at 5 when it is missing.          *)
C22_ScoreFromSum ==
    Scored =>
        /\ Score \in 0..100
        /\ ~call.use_sentiment => Score <= 50
        /\ args.has_structure => Score = RoundedSum
        /\ ~args.has_structure => Score = Max(5, RoundHalfEven(55 * RoundedSum, 100))

C22_Witness ==
    /\ Scored
    /\ call.use_sentiment /\ sent.sentiment_score = -61
    /\ WeakerAdx = 21 /\ args.last_vol = 103 /\ args.vol_sma = 100
    /\ args.has_structure
    /\ Score = 33

(***************************************************************************)
(* Confidence and risk label of the emitted payload (Spec).                *)
(***************************************************************************)
EmittedDone == pc = "done" /\ Emitted /\ entry_out # None

(* The score before any penalty: the rounded sum of the sentiment, ADX    *)
(* and volume contributions of the evaluation, in the claim's terms.      *)
Unpenalised ==
    LET lv == entry_out[1].last_volume
        sma == entry_out[1].avg_volume
        den == IF sma > 0 THEN sma ELSE 1
        s2 == IF call.use_sentiment THEN Min(100, Abs(sent.sentiment_score)) ELSE 0
        a2 == Min(60, Max(0, 3 * (Min(regime.adx_1h, regime.adx_4h) - 20)))
        v2 == IF sma > 0 THEN Min(40 * den, Max(0, 40 * (lv - sma))) ELSE 0
    IN  RoundHalfEven(Min(200 * den, den * (s2 + a2) + v2), 2 * den)

Penalised == Max(5, RoundHalfEven(55 * Unpenalised, 100))

FallbackOnly == struct.fallback_bos /\ ~struct.sweep
SweepAndBos == struct.bos /\ struct.sweep
NoConfirmation == ~struct.bos /\ ~struct.fallback_bos

LabelToggles ==
    [market_regime |-> rules.enable_regime, structure |-> rules.enable_structure,
     alignment |-> rules.enable_alignment, vwap |-> rules.enable_vwap,
     volume |-> rules.enable_volume, stop_cap |-> rules.enable_stop_cap]
DisabledCount == Cardinality({t \in DOMAIN LabelToggles : ~LabelToggles[t]})

(* C24: the risk label of every emitted LONG/SHORT payload is LOW exactly *)
(* when none of market_regime, structure, alignment, vwap, volume,        *)
(* stop_cap is disabled, MEDIUM exactly when one or two are, HIGH exactly *)
(* when three or more are; a payload of the forced RSI-only path (entry   *)
(* rules failed) is always HIGH.                                          *)
C24_RiskLabel ==
    (pc = "done" /\ Emitted) =>
        /\ payload.risk_level \in {"LOW", "MEDIUM", "HIGH"}
        /\ payload.risk_level = "LOW" <=> DisabledCount = 0
        /\ payload.risk_level = "MEDIUM" <=> DisabledCount \in 1..2
        /\ payload.risk_level = "HIGH" <=> DisabledCount >= 3
        /\ gates.entry = "FALSE" => payload.risk_level = "HIGH"

C24_Witness ==
    /\ pc = "done" /\ Emitted
    /\ call.use_sentiment
    /\ ~rules.enable_structure /\ ~rules.enable_stop_cap /\ DisabledCount = 2
    /\ payload.risk_level = "MEDIUM"

(***************************************************************************)
(* Evaluations side by side (SpecConcurrent).                              *)
(***************************************************************************)
Finished(w) == pc = "evaluations" /\ evals[w].pc = "done"

(* What an evaluation hands back: the payload and the diagnostics. *)
Returned(loc) == [payload |-> loc.payload, gates |-> loc.gates, sent |-> loc.sent]

(* C25: two evaluations given the same candle series, the same news items *)
(* and the same configuration return the same decision payload, with      *)
(* sentiment gating on as well as off: no clock reading enters the result. *)
C25_Deterministic ==
    \A w1 \in Workers, w2 \in Workers :
        (Finished(w1) /\ Finished(w2) /\ args.calls[w1] = args.calls[w2]) =>
            evals[w1].payload = evals[w2].payload

(* The clock reading an evaluation took, 0 when it took none. *)
ReadAt(w) == IF evals[w].read_at = None THEN 0 ELSE evals[w].read_at[1]

EntryRejected ==
    pc = "done" /\ payload.signal = "NO_TRADE" /\ payload.failed_gate = "entry"

Explains(line) == \E k \in DOMAIN payload.explain : payload.explain[k] = line

(* The explanation is a list of sentences none of which is the generic one. *)
NamesSubChecks ==
    /\ payload.explain # <<>>
    /\ \A k \in DOMAIN payload.explain :
          payload.explain[k] \in {"RSI condition not met", "VWAP condition not met",
                                  "Not enough volume history to evaluate",
                                  "Volume not expanded enough", "Stop too wide vs entry"}

(* C27: whenever the entry gate rejects, the NO_TRADE payload's explain   *)
(* list names the sub-checks that failed; the generic catch-all sentence  *)
(* is never the only explanation of a rejection, every rejection being    *)
(* caused by an identifiable sub-check (RSI band, RSI momentum, VWAP,     *)
(* volume, stop width, or a non-positive stop distance).                  *)
C27_ExplainNamesFailedCheck ==
    EntryRejected =>
        /\ NamesSubChecks
        /\ ~entry_out[1].checks.rsi_ok => Explains("RSI condition not met")
        /\ ~entry_out[1].checks.vwap_ok => Explains("VWAP condition not met")
        /\ entry_out[1].checks.stop_width_ok = "FALSE" => Explains("Stop too wide vs entry")

(* C28: on every candle input that passes the data check (one-bar series, *)
(* zero average volume, too few swings and a stop reference on the wrong  *)
(* side included) and under every configuration, the evaluation ends with *)
(* a decision payload (LONG, SHORT or NO_TRADE) and never with a raised   *)
(* exception.                                                             *)
C28_NeverRaises ==
    pc = "done" => payload.signal \in {"LONG", "SHORT", "NO_TRADE"}

(***************************************************************************)
(* The bias with the regime gate disabled (Spec).                          *)
(***************************************************************************)
RegimeDone == gates.market_regime # "ABSENT"

(* C29: with the regime gate disabled, whatever the other toggles, the    *)
(* bias every later gate uses comes from the execution RSI alone (SHORT   *)
(* at 50 or above, LONG below 50) with the regime forced to TREND; it is  *)
(* never NEUTRAL, and no payload carries the signal NEUTRAL: an emitted   *)
(* direction is that bias.                                                *)
C29_RsiBiasWhenRegimeOff ==
    /\ (RegimeDone /\ ~rules.enable_regime) =>
          /\ gates.market_regime = "SKIPPED"
          /\ metrics.exec_rsi # None
          /\ regime.market_regime = "TREND"
          /\ regime.bias = (IF metrics.exec_rsi[1] >= 50 THEN "SHORT" ELSE "LONG")
          /\ Emitted => payload.signal = regime.bias
    /\ payload.signal # "NEUTRAL"

C29_Witness ==
    /\ pc = "done" /\ Emitted
    /\ ~rules.enable_regime /\ rules.enable_structure /\ rules.enable_alignment
    /\ metrics.regime = "RANGE" /\ metrics.bias = "NEUTRAL"
    /\ metrics.exec_rsi = Some(65)
    /\ payload.signal = "SHORT"

(***************************************************************************)
(* The request layer (main.py): POST /signal/institutional and             *)
(* POST /signal/institutional/debug.  A request is answered in one step:   *)
(* the timeframe is checked, the engine is called, and whatever the engine *)
(* raised is turned into the fixed NO_TRADE answer.                        *)
(***************************************************************************)
Routes == {"/signal/institutional", "/signal/institutional/debug"}

(* request.timeframe as posted; "" stands for a missing or empty value. *)
Timeframes == {"5m", "15m", "1h", " 15m ", "", "4h", "1d", "15M"}

(* (request.timeframe or "15m").strip() *)
StripTimeframe(timeframe) ==
    IF timeframe = "" THEN "15m"
    ELSE IF timeframe = " 15m " THEN "15m"
    ELSE timeframe

ValidTimeframe(timeframe) == StripTimeframe(timeframe) \in {"5m", "15m", "1h"}

(* What the engine call can come back with: a plan, a refusal at one of   *)
(* the gates, or an exception (the one-bar IndexError, the forced path's  *)
(* NameError, a failure of the data manager).                              *)
EnginePlans ==
    {[NoPayload EXCEPT !.signal = "LONG", !.reason = "confluence",
                       !.confidence_score = 70, !.risk_level = "LOW",
                       !.entry_price = Some(100000), !.stop_loss = Some(99000),
                       !.take_profit = Some(102000), !.risk_reward = Some(2)],
     [NoPayload EXCEPT !.signal = "SHORT", !.reason = "confluence",
                       !.confidence_score = 40, !.risk_level = "MEDIUM",
                       !.entry_price = Some(100000), !.stop_loss = Some(101000),
                       !.take_profit = Some(98000), !.risk_reward = Some(2)]}

EngineOutcomes ==
    EnginePlans
    \cup {no_trade_payload(g, <<>>) : g \in GateNames}
    \cup {Raised(exc) : exc \in {"IndexError", "NameError", "RuntimeError"}}

HasRaised(outcome) == outcome.signal = "RAISED"

(* The dict both handlers answer with on `except Exception`. *)
FailSafeResult_Directional ==
    [signal |-> "LONG", reason |-> "insufficient confluence"]
FailSafeResult ==
    [signal |-> "NO_TRADE", reason |-> "insufficient confluence"]

(* raise HTTPException(status_code=400, ...), passed on by `except HTTPException: raise`. *)
BadRequest ==
    [status |-> 400, detail |-> "Invalid timeframe. Use 5m, 15m, or 1h.",
     result |-> FailSafeResult, debug |-> ""]

Answer(result, debug) == [status |-> 200, detail |-> "", result |-> result, debug |-> debug]

(* The engine function a handler calls and the arguments it passes. *)
EngineCall(function, use_sentiment) ==
    [function |-> function, timeframe |-> StripTimeframe(call.timeframe),
     use_sentiment |-> use_sentiment, preset |-> StripLower(call.preset)]

InitRequest ==
    /\ pc = "request"
    /\ \E route \in Routes, timeframe \in Timeframes, use_sentiment \in BOOLEAN,
          preset \in {"balanced", " STRICT ", ""} :
          call = [route |-> route, timeframe |-> timeframe,
                  use_sentiment |-> use_sentiment, preset |-> preset]
    /\ args = None
    /\ payload = NoPayload
    /\ response = None
    /\ now = 0
    /\ evals = <<>>
    /\ rules = [k \in RuleKeys |-> TRUE]
    /\ feed = FullFeed
    /\ news_manager = None
    /\ entry_out = None
    /\ gates = NoGates
    /\ metrics = NoMetrics
    /\ regime = NoRegime
    /\ sent = NeutralSentiment
    /\ struct = NoStruct

(* POST /signal/institutional *)
institutional_signal ==
    /\ pc = "request"
    /\ call.route = "/signal/institutional"
    /\ pc' = "responded"
    /\ IF ~ValidTimeframe(call.timeframe)
       THEN /\ response' = BadRequest
            /\ UNCHANGED <<args, payload>>
       ELSE \E outcome \in EngineOutcomes :
               /\ args' = IF call.use_sentiment
                          THEN EngineCall("generate_institutional_signal_debug", TRUE)
                          ELSE EngineCall("generate_institutional_signal", FALSE)
               /\ payload' = outcome
               /\ response' = IF HasRaised(outcome) THEN Answer(FailSafeResult, "")
                              ELSE Answer(outcome, "")
    /\ UNCHANGED <<now, evals, rules, call, feed, news_manager, entry_out, gates, metrics,
                   regime, sent, struct>>

(* POST /signal/institutional/debug *)
institutional_signal_debug ==
    /\ pc = "request"
    /\ call.route = "/signal/institutional/debug"
    /\ pc' = "responded"
    /\ IF ~ValidTimeframe(call.timeframe)
       THEN /\ response' = BadRequest
            /\ UNCHANGED <<args, payload>>
       ELSE \E outcome \in EngineOutcomes :
               /\ args' = EngineCall("generate_institutional_signal_debug",
                                     call.use_sentiment)
               /\ payload' = outcome
               /\ response' = IF HasRaised(outcome) THEN Answer(FailSafeResult, "error")
                              ELSE Answer(outcome, "trace")
    /\ UNCHANGED <<now, evals, rules, call, feed, news_manager, entry_out, gates, metrics,
                   regime, sent, struct>>

NextRequest == institutional_signal \/ institutional_signal_debug

SpecRequest == InitRequest /\ [][NextRequest]_vars

(***************************************************************************)
(* The request layer's fail-safe (SpecRequest).                            *)
(***************************************************************************)
Responded == pc = "responded"
EngineRan == args # None
PostedOutsideSet == call.timeframe \in {"4h", "1d", "15M"}
PriceKeys == {"entry_price", "stop_loss", "take_profit"}
CarriesNoPrices(result) == \A k \in PriceKeys : k \in DOMAIN result => result[k] = None

(* C30: on either route, when the engine call raises anything other than  *)
(* an HTTP error the answer is NO_TRADE with reason "insufficient         *)
(* confluence" and no entry, stop or target, never LONG or SHORT; a       *)
(* timeframe outside 5m, 15m, 1h is answered with status 400 and the      *)
(* engine is not called.                                                  *)
C30_FailSafe ==
    Responded =>
        /\ (EngineRan /\ HasRaised(payload)) =>
              /\ response.status = 200
              /\ response.result.signal = "NO_TRADE"
              /\ response.result.reason = "insufficient confluence"
              /\ CarriesNoPrices(response.result)
        /\ PostedOutsideSet =>
              /\ response.status = 400
              /\ ~EngineRan
              /\ payload = NoPayload
        /\ response.status = 400 => ~ValidTimeframe(call.timeframe)

C30_Witness ==
    /\ Responded
    /\ call.route = "/signal/institutional/debug"
    /\ EngineRan /\ payload = Raised("IndexError")
    /\ response.status = 200
    /\ response.result.signal = "NO_TRADE"
    /\ response.debug = "error"

====
